---- MODULE Spec2Model ----
(***************************************************************************)
(* Model of the uReport ingest path of faf: signature hashing              *)
(* (pyfaf/ureport.py, pyfaf/problemtypes/python.py), report aggregation    *)
(* (add_report) and the new-report endpoint (webfaf/reports.py).           *)
(*                                                                         *)
(* Strings that take part in hashing are sequences of one-character        *)
(* strings, so that formatting and joining are real concatenations.        *)
(***************************************************************************)
EXTENDS Integers, Sequences, FiniteSets, TLC

VARIABLES
    hashbase_default,   \* the list object bound to hash_thread's default argument
    calls,              \* hashing calls observed so far, with their results
    db,                 \* the session's view of the storage (tables of rows)
    last,               \* the last add_report / is_known call and its outcome
    ghost,              \* bookkeeping about the ingests, independent of db
    store,              \* committed storage shared by concurrent transactions
    tx,                 \* per transaction: position, payload, rows read and written
    web                 \* the new-report endpoint: archive, queue, last response

vars == <<hashbase_default, calls, db, last, ghost, store, tx, web>>

\* ------------------------------------------------------------------ bounds
MaxTail == 1            \* frames a crash thread may have beyond the hashed ones
MaxCalls == 2           \* hashing calls recorded in one behaviour
MaxDefaultLen == 4      \* lines the shared default hashbase may grow to
MaxIngests == 2         \* add_report calls in one behaviour
MaxTx == 3              \* transactions started in one behaviour
MaxPosts == 2           \* requests to the new-report endpoint in one behaviour
MaxValidations == 2     \* validate calls in one behaviour

\* ------------------------------------------------------- program constants
HashFrames == 16

\* ------------------------------------------------------------------- values
\* A string of the program is a sequence of characters; the two markers below
\* are no such sequence.
Absent == <<"<absent>">>    \* the key is not in the mapping
None == <<"<None>">>        \* the key is there and holds None

\* ---------------------------------------------------------------- sequences
RECURSIVE Flatten(_)
Flatten(ss) ==
    IF ss = <<>> THEN <<>> ELSE Head(ss) \o Flatten(Tail(ss))

\* s[:n]
Take(s, n) == SubSeq(s, 1, IF Len(s) < n THEN Len(s) ELSE n)

\* "\n".join(lines)
Join(lines) ==
    Flatten([ i \in 1..Len(lines) |->
                IF i = 1 THEN lines[i] ELSE <<"\n">> \o lines[i] ])

\* str(n) for n >= 0, decimal
Digit(d) == <<"0","1","2","3","4","5","6","7","8","9">>[d + 1]

RECURSIVE IntToStr(_)
IntToStr(n) ==
    IF n < 10 THEN <<Digit(n)>> ELSE IntToStr(n \div 10) \o <<Digit(n % 10)>>

\* hashlib.sha1(text).hexdigest(): collision-free on the texts of the model
sha1(text) == [sha1 |-> text]

\* ------------------------------------------------- pyfaf/ureport.py hashing
\* sorted(result, key=frame): insertion of x behind every element whose key is <= x's
RECURSIVE InsertByFrame(_, _)
InsertByFrame(sorted, x) ==
    IF sorted = <<>> THEN <<x>>
    ELSE IF Head(sorted).frame <= x.frame
         THEN <<Head(sorted)>> \o InsertByFrame(Tail(sorted), x)
         ELSE <<x>> \o sorted

RECURSIVE SortedByFrame(_)
SortedByFrame(s) ==
    IF s = <<>> THEN <<>>
    ELSE InsertByFrame(SortedByFrame(SubSeq(s, 1, Len(s) - 1)), s[Len(s)])

\* a crash thread of every frame of the payload
get_crash_thread_AllFrames(ureport) == SortedByFrame(ureport.core_backtrace)

get_crash_thread(ureport) ==
    SortedByFrame(SelectSeq(ureport.core_backtrace,
                            LAMBDA frame : frame.thread = ureport.crash_thread))

Carries(x, key) == x[key] # Absent /\ x[key] # None

\* "{0} @ {1}".format(a, b)
FormatAt(a, b) == a \o <<" ", "@", " ">> \o b

\* hash_thread taking the names as soon as one frame has one
hash_thread_AnyName(thread, hashbase) ==
    LET hasnames == \E i \in 1..Len(thread) : Carries(thread[i], "funcname")
        byname == hashbase \o [ i \in 1..Len(thread) |->
                                  FormatAt(thread[i].funcname, thread[i].path) ]
    IN  IF hasnames \/ thread = <<>>
        THEN [ok |-> TRUE, hashtype |-> "NAMES", hash |-> sha1(Join(byname)),
              hashbase |-> byname]
        ELSE [ok |-> TRUE, hashtype |-> "HASHES",
              hash |-> sha1(Join(hashbase \o [ i \in 1..Len(thread) |->
                                  FormatAt(thread[i].funchash, thread[i].path) ])),
              hashbase |-> hashbase]

\* hash_thread with the list it extends passed in; the result carries the
\* list as the call leaves it
hash_thread(thread, hashbase) ==
    LET hasnames == \A i \in 1..Len(thread) : Carries(thread[i], "funcname")
        hashashes == \A i \in 1..Len(thread) : Carries(thread[i], "funchash")
        byname == hashbase \o [ i \in 1..Len(thread) |->
                                  FormatAt(thread[i].funcname, thread[i].path) ]
        byhash == hashbase \o [ i \in 1..Len(thread) |->
                                  FormatAt(thread[i].funchash, thread[i].path) ]
    IN  IF hasnames
        THEN [ok |-> TRUE, hashtype |-> "NAMES", hash |-> sha1(Join(byname)),
              hashbase |-> byname]
        ELSE IF hashashes
        THEN [ok |-> TRUE, hashtype |-> "HASHES", hash |-> sha1(Join(byhash)),
              hashbase |-> byhash]
        ELSE [ok |-> FALSE,
              error |-> "either function names or function hashes are required",
              hashbase |-> hashbase]

\* a cut one frame too late
Truncate_OffByOne(cthread) == Take(cthread, HashFrames + 1)

\* cthread[:16]
Truncate(cthread) == Take(cthread, HashFrames)

\* a report hash with no seed
get_report_hash_NoSeed(ureport, componentname) ==
    hash_thread(Truncate(get_crash_thread(ureport)), <<>>)

get_report_hash(ureport, componentname) ==
    hash_thread(Truncate(get_crash_thread(ureport)), <<componentname>>)

\* --------------------------------------- pyfaf/problemtypes/python.py hashing
PyFuncname(frame) ==
    IF frame.special_function # Absent
    THEN <<"<">> \o frame.special_function \o <<">">>
    ELSE frame.function_name

\* "{0} @ {1} + {2}".format(funcname, file_name, file_line)
PyFormat(frame) ==
    FormatAt(PyFuncname(frame), frame.file_name)
        \o <<" ", "+", " ">> \o IntToStr(frame.file_line)

hash_ureport(ureport) ==
    LET st == ureport.stacktrace
        n == IF Len(st) < HashFrames THEN Len(st) ELSE HashFrames
    IN  sha1(Join(<<ureport.component>> \o [ i \in 1..n |-> PyFormat(st[i]) ]))

\* ------------------------------------------------------ inputs of the hashing
c1 == <<"c", "1">>
c2 == <<"c", "2">>
ComponentNames == {c1, c2}

fn_f == <<"f">>
fn_g == <<"g">>
fn_k == <<"k">>
hash_a == <<"a", "1">>
hash_b == <<"b", "2">>
path_x == <<"/", "x">>
path_y == <<"/", "y">>

CoreFrame(th, idx, nm, hs, pth) ==
    [thread |-> th, frame |-> idx, buildid |-> "b1", path |-> pth,
     offset |-> idx, funcname |-> nm, funchash |-> hs]

\* the frame at position i of a generated crash thread of n frames
BtFrame(i, prefix, tail) ==
    IF i > HashFrames
    THEN CASE tail = "names" -> CoreFrame(0, i, fn_f, Absent, path_x)
           [] tail = "other" -> CoreFrame(0, i, fn_k, Absent, path_y)
           [] tail = "hashes" -> CoreFrame(0, i, Absent, hash_a, path_x)
           [] OTHER -> CoreFrame(0, i, Absent, Absent, path_x)
    ELSE CASE prefix = "names" ->
                CoreFrame(0, i, IF i % 2 = 1 THEN fn_f ELSE fn_g, Absent, path_x)
           [] prefix = "hashes" ->
                CoreFrame(0, i, Absent, IF i % 2 = 1 THEN hash_a ELSE hash_b, path_x)
           [] prefix = "both" ->
                CoreFrame(0, i, fn_f, hash_a, path_y)
           [] OTHER ->  \* "gap": the last hashed frame has neither name nor hash
                CoreFrame(0, i, IF i = HashFrames THEN Absent ELSE fn_f,
                          Absent, path_x)

Reverse(s) == [ i \in 1..Len(s) |-> s[Len(s) + 1 - i] ]

\* a payload whose crash thread has n frames; "desc" lists them last first,
\* "mixed" puts a frame of another thread in front
BtPayload(n, prefix, tail, layout) ==
    LET asc == [ i \in 1..n |-> BtFrame(i, prefix, tail) ]
    IN  [crash_thread |-> 0,
         core_backtrace |->
            CASE layout = "asc" -> asc
              [] layout = "desc" -> Reverse(asc)
              [] OTHER -> <<CoreFrame(1, 1, Absent, Absent, path_y)>> \o asc]

BtLengths == {0, 1} \cup (HashFrames .. HashFrames + MaxTail)

HashPayloads ==
    { BtPayload(n, prefix, tail, layout) :
        n \in BtLengths, prefix \in {"names", "hashes", "gap"},
        tail \in {"names", "other", "bare"}, layout \in {"asc"} }
    \cup { BtPayload(n, "both", "hashes", layout) :
             n \in BtLengths, layout \in {"desc", "mixed"} }

ShortFrames ==
    { CoreFrame(0, 1, fn_f, Absent, path_x), CoreFrame(0, 1, Absent, hash_a, path_x),
      CoreFrame(0, 1, None, hash_a, path_x), CoreFrame(0, 1, Absent, Absent, path_x) }

ShortThreads ==
    {<<>>} \cup { <<x>> : x \in ShortFrames }
           \cup { <<x, y>> : x \in { z \in ShortFrames : z.funcname # None },
                             y \in ShortFrames }

DefaultSeed == <<Absent>>   \* the call names no hashbase
Seeds == {DefaultSeed, <<c1>>}

PyFrame(i, special) ==
    [file_name |-> path_x, file_line |-> i, line_contents |-> "pass",
     function_name |-> IF special THEN Absent ELSE fn_f,
     special_function |-> IF special THEN <<"m">> ELSE Absent]

PyPayloads ==
    { [component |-> comp, exception_name |-> "E",
       stacktrace |-> [ i \in 1..n |-> PyFrame(i, IF i > HashFrames THEN k[2] ELSE k[1]) ]] :
         comp \in ComponentNames, n \in BtLengths \ {0},
         k \in {<<FALSE, FALSE>>, <<TRUE, FALSE>>, <<TRUE, TRUE>>} }

\* ---------------------------------------------------- the hashing calls
Outcome(r) ==
    IF r.ok THEN [ok |-> TRUE, hashtype |-> r.hashtype, hash |-> r.hash]
    ELSE [ok |-> FALSE, error |-> r.error]

Record(call) ==
    /\ Cardinality(calls) < MaxCalls
    /\ calls' = calls \cup {call}

\* hash_thread(thread) or hash_thread(thread, hashbase=[...])
HashThreadCall ==
    \E thread \in ShortThreads, seed \in Seeds :
        LET hashbase == IF seed = DefaultSeed THEN hashbase_default ELSE seed
            r == hash_thread(thread, hashbase)
        IN  /\ Len(r.hashbase) <= MaxDefaultLen
            /\ Record([op |-> "hash_thread", thread |-> thread, seed |-> seed,
                       result |-> Outcome(r)])
            /\ hashbase_default' =
                  IF seed = DefaultSeed THEN r.hashbase ELSE hashbase_default
            /\ UNCHANGED <<db, last, ghost, store, tx, web>>

\* the payloads hashed, each with the component name of its installed package
HashInputs ==
    (HashPayloads \X {c1})
        \cup ({ BtPayload(n, "names", "names", "asc") : n \in BtLengths } \X {c2})

GetReportHashCall ==
    \E input \in HashInputs :
        LET ureport == input[1]
            comp == input[2]
        IN  /\ Record([op |-> "get_report_hash", ureport |-> ureport,
                       seed |-> <<comp>>,
                       result |-> Outcome(get_report_hash(ureport, comp))])
            /\ UNCHANGED <<hashbase_default, db, last, ghost, store, tx, web>>

HashUreportCall ==
    \E ureport \in PyPayloads :
        /\ Record([op |-> "hash_ureport", ureport |-> ureport,
                   seed |-> <<ureport.component>>,
                   result |-> [ok |-> TRUE, hashtype |-> "NAMES",
                               hash |-> hash_ureport(ureport)]])
        /\ UNCHANGED <<hashbase_default, db, last, ghost, store, tx, web>>

Idle == [none |-> TRUE]     \* a variable the specification does not use
NoCall == [op |-> "none"]   \* no call was made yet

InitHash ==
    /\ hashbase_default = <<>>
    /\ calls = {}
    /\ db = Idle /\ last = NoCall /\ ghost = Idle
    /\ store = Idle /\ tx = Idle /\ web = Idle

NextHash == HashThreadCall \/ GetReportHashCall \/ HashUreportCall

SpecHash == InitHash /\ [][NextHash]_vars

\* ------------------------------------------------------------ the catalog
\* Read-only rows the ingest resolves against: packages with the component of
\* their build, the OS releases they belong to, and architectures.
NoKey == "<absent>"         \* a plain-string key that is not in the mapping
NoPackage == "<none>"       \* get_package found no row; a NULL package column

PackageComponent == [p1 |-> c1, p2 |-> c2, p3 |-> c1]
KnownReleases == {"f16", "f17"}
KnownArchs == {"x86_64", "noarch"}

get_package(ureport_package, ureport_os) ==
    IF ureport_package \in DOMAIN PackageComponent /\ ureport_os \in KnownReleases
    THEN ureport_package
    ELSE NoPackage

\* str.upper() on the strings of the model
Upper(str) ==
    CASE str = "userspace" -> "USERSPACE"
      [] str = "python" -> "PYTHON"
      [] str = "Python" -> "PYTHON"
      [] str = "kerneloops" -> "KERNELOOPS"
      [] str = "enforcing" -> "ENFORCING"
      [] str = "Permissive" -> "PERMISSIVE"
      [] str = "permissive" -> "PERMISSIVE"
      [] str = "disabled" -> "DISABLED"
      [] OTHER -> str

\* ------------------------------------------------------------ dates
\* utctime counts hours from Monday 2024-01-01 00:00; a date is a day number.
HoursPerDay == 24
DaysPerWeek == 7
MonthStarts == {0, 31, 60, 91, 121, 152, 182, 213, 244, 274, 305, 335}

DateOf(utctime) == utctime \div HoursPerDay
\* day - timedelta(days=day.weekday())
WeekOf(day) == day - (day % DaysPerWeek)
\* day.replace(day=1)
MonthOf(day) ==
    CHOOSE m \in MonthStarts :
        m <= day /\ \A other \in MonthStarts : other <= day => other <= m

\* int(math.log(uptime, 10)) for 1 <= uptime < 1000; -1 below 0.1
UptimeExp(uptime) ==
    IF uptime < 1 THEN -1
    ELSE IF uptime < 10 THEN 0
    ELSE IF uptime < 100 THEN 1
    ELSE 2

\* ------------------------------------------------------------ the storage
EmptyDb ==
    [nextid |-> [reports |-> 1, backtraces |-> 1, symbols |-> 1, symbolsources |-> 1],
     reports |-> <<>>,        \* [id, type, first_occurence, last_occurence, count, component]
     backtraces |-> <<>>,     \* [id, report]
     bthashes |-> <<>>,       \* [type, hash, backtrace]
     btframes |-> <<>>,       \* [backtrace, order, symbolsource]
     symbolsources |-> <<>>,  \* [id, build_id, path, offset, hash, symbol]
     symbols |-> <<>>,        \* [id, name, normalized_path]
     stats |-> <<>>]          \* [table, report, keystr, keynum, count]

Rows(table) == { table[i] : i \in 1..Len(table) }

NoId == 0

RowById(table, id) == CHOOSE row \in Rows(table) : row.id = id

\* the lowest id among rows, NoId when there is none: first() of a query whose
\* matches all carry the same natural key
FirstId(rows) ==
    IF rows = {} THEN NoId
    ELSE CHOOSE id \in { r.id : r \in rows } : \A r \in rows : id <= r.id

\* a lookup that holds the hash type against the report's type
MatchingReports_ReportType(view, hash_type, hash_hash, component) ==
    { r.id : r \in { r \in Rows(view.reports) :
        /\ r.component = component
        /\ \E bt \in Rows(view.backtraces), h \in Rows(view.bthashes) :
              /\ bt.report = r.id /\ h.backtrace = bt.id
              /\ h.hash = hash_hash /\ r.type = hash_type } }

\* a lookup on the component alone
MatchingReports_SameComponent(view, hash_type, hash_hash, component) ==
    { r.id : r \in { r \in Rows(view.reports) : r.component = component } }

\* query(Report).join(ReportBacktrace).join(ReportBtHash).filter(...): the ids
\* of the reports with a backtrace hash (hash, type) and this component
MatchingReports(view, hash_type, hash_hash, component) ==
    { r.id : r \in { r \in Rows(view.reports) :
        /\ r.component = component
        /\ \E bt \in Rows(view.backtraces), h \in Rows(view.bthashes) :
              /\ bt.report = r.id /\ h.backtrace = bt.id
              /\ h.hash = hash_hash /\ h.type = hash_type } }

\* what first() may return for the lookup: any one match, NoId when none
FirstReport(matches) == IF matches = {} THEN {NoId} ELSE matches

NewReport(id, ureport, utctime, count, component) ==
    [id |-> id, type |-> Upper(ureport.type),
     first_occurence |-> utctime, last_occurence |-> utctime,
     count |-> count, component |-> component]

\* the update that moves first_occurence where last_occurence is meant
UpdateReport_WrongField(report, utctime, count) ==
    [report EXCEPT
        !.count = @ + count,
        !.first_occurence = IF report.last_occurence < utctime THEN utctime
                            ELSE IF report.first_occurence > utctime THEN utctime ELSE @]

\* the update that always moves last_occurence to the ingest's time
UpdateReport_LastAlways(report, utctime, count) ==
    [report EXCEPT
        !.count = @ + count,
        !.last_occurence = utctime,
        !.first_occurence = IF report.first_occurence > utctime THEN utctime ELSE @]

\* report.count += count; last_occurence / first_occurence moved outwards
UpdateReport(report, utctime, count) ==
    [report EXCEPT
        !.count = @ + count,
        !.last_occurence = IF report.last_occurence < utctime THEN utctime ELSE @,
        !.first_occurence = IF report.last_occurence < utctime THEN @
                            ELSE IF report.first_occurence > utctime THEN utctime ELSE @]

ReplaceRow(table, row) ==
    [ i \in 1..Len(table) |-> IF table[i].id = row.id THEN row ELSE table[i] ]

\* ----------------------------------------------------- frames and symbols
\* One pass of the loop over the crash thread's frames: find the frame's
\* SymbolSource (among the session's new objects, then by query) or create
\* it, with its Symbol when the frame has a funcname, and add the ReportBtFrame.
\* One pass of the frame loop. Queries do not flush the session: the
\* SymbolSource lookup goes through db.session.new before it queries, the
\* Symbol lookup is a query only and sees the rows flushed before the call
\* (ids below `flushed`).
AddFrame(view, flushed, backtrace_id, frame) ==
    LET sources == { ss \in Rows(view.symbolsources) :
                        /\ ss.build_id = frame.buildid
                        /\ ss.path = frame.path
                        /\ ss.offset = frame.offset }
        symbols == { sy \in Rows(view.symbols) :
                        /\ sy.id < flushed.symbols
                        /\ sy.name = frame.funcname
                        /\ sy.normalized_path = frame.path }
        newsource == sources = {}
        named == frame.funcname # Absent
        newsymbol == newsource /\ named /\ symbols = {}
        symbol_id == IF ~named \/ ~newsource THEN NoId
                     ELSE IF symbols = {} THEN view.nextid.symbols
                     ELSE FirstId(symbols)
        source_id == IF newsource THEN view.nextid.symbolsources
                     ELSE FirstId(sources)
    IN  [view EXCEPT
            !.symbols = IF newsymbol
                        THEN Append(@, [id |-> symbol_id, name |-> frame.funcname,
                                        normalized_path |-> frame.path])
                        ELSE @,
            !.symbolsources =
                IF newsource
                THEN Append(@, [id |-> source_id, build_id |-> frame.buildid,
                                path |-> frame.path, offset |-> frame.offset,
                                hash |-> IF frame.funchash # Absent
                                         THEN frame.funchash ELSE None,
                                symbol |-> symbol_id])
                ELSE @,
            !.nextid.symbols = IF newsymbol THEN @ + 1 ELSE @,
            !.nextid.symbolsources = IF newsource THEN @ + 1 ELSE @,
            !.btframes = Append(@, [backtrace |-> backtrace_id,
                                    order |-> frame.frame,
                                    symbolsource |-> source_id])]

RECURSIVE AddFrames(_, _, _, _)
AddFrames(view, flushed, backtrace_id, cthread) ==
    IF cthread = <<>> THEN view
    ELSE AddFrames(AddFrame(view, flushed, backtrace_id, Head(cthread)),
                   flushed, backtrace_id, Tail(cthread))

\* Report, ReportBacktrace, ReportBtHash and the frames of a new signature
CreateReport(view, ureport, utctime, count, component, hash_type, hash_hash) ==
    LET report_id == view.nextid.reports
        backtrace_id == view.nextid.backtraces
        withreport ==
            [view EXCEPT
                !.reports = Append(@, NewReport(report_id, ureport, utctime,
                                                count, component)),
                !.backtraces = Append(@, [id |-> backtrace_id, report |-> report_id]),
                !.bthashes = Append(@, [type |-> hash_type, hash |-> hash_hash,
                                        backtrace |-> backtrace_id]),
                !.nextid.reports = @ + 1,
                !.nextid.backtraces = @ + 1]
    IN  AddFrames(withreport, view.nextid, backtrace_id, get_crash_thread(ureport))

\* ------------------------------------------------------------------ stats
StatEntry(table, keystr, keynum) ==
    [table |-> table, keystr |-> keystr, keynum |-> keynum]

\* the first exception of the loop over related_packages, "" when there is none
RECURSIVE RelatedError(_, _)
RelatedError(related, os) ==
    IF related = <<>> THEN ""
    ELSE IF get_package(Head(related).installed_package, os) = NoPackage
    THEN "Unknown related installed package."
    ELSE IF /\ Head(related).running_package # NoKey
            /\ get_package(Head(related).running_package, os) = NoPackage
    THEN "Unknown related running package."
    ELSE RelatedError(Tail(related), os)

\* the exception raised between the report's update and the stat loop, "" when
\* every row the stats refer to is found
ResolveError(ureport) ==
    IF ureport.architecture \notin KnownArchs
    THEN "NoResultFound: Arch"
    ELSE IF /\ ureport.running_package # NoKey
            /\ get_package(ureport.running_package, ureport.os) = NoPackage
    THEN "Unknown running package."
    ELSE IF RelatedError(ureport.related_packages, ureport.os) # ""
    THEN RelatedError(ureport.related_packages, ureport.os)
    ELSE IF /\ ureport.selinux # <<>>
            /\ ureport.selinux[1].policy_package # NoKey
            /\ get_package(ureport.selinux[1].policy_package, ureport.os) = NoPackage
    THEN "Unknown selinux policy package."
    ELSE ""

RunningOf(mapping, os) ==
    IF mapping.running_package = NoKey THEN NoPackage
    ELSE get_package(mapping.running_package, os)

\* stat_map of an ingest whose rows all resolve
stat_map(ureport, package, utctime) ==
    LET os == ureport.os
        day == DateOf(utctime)
        related == [ i \in 1..Len(ureport.related_packages) |->
                       StatEntry("ReportRelatedPackage",
                           <<get_package(ureport.related_packages[i].installed_package, os),
                             RunningOf(ureport.related_packages[i], os)>>, <<>>) ]
        selinux ==
            IF ureport.selinux = <<>> THEN <<>>
            ELSE <<StatEntry("ReportSelinuxMode", <<Upper(ureport.selinux[1].mode)>>, <<>>)>>
                 \o (IF ureport.selinux[1].context = NoKey THEN <<>>
                     ELSE <<StatEntry("ReportSelinuxContext",
                                      <<ureport.selinux[1].context>>, <<>>)>>)
                 \o (IF ureport.selinux[1].policy_package = NoKey THEN <<>>
                     ELSE <<StatEntry("ReportSelinuxPolicyPackage",
                               <<get_package(ureport.selinux[1].policy_package, os)>>,
                               <<>>)>>)
    IN  << StatEntry("ReportPackage", <<package, RunningOf(ureport, os)>>, <<>>),
           StatEntry("ReportArch", <<ureport.architecture>>, <<>>),
           StatEntry("ReportOpSysRelease", <<os>>, <<>>),
           StatEntry("ReportExecutable", <<ureport.executable>>, <<>>),
           StatEntry("ReportUptime", <<>>, <<UptimeExp(ureport.uptime)>>),
           StatEntry("ReportHistoryMonthly", <<os>>, <<MonthOf(day)>>),
           StatEntry("ReportHistoryWeekly", <<os>>, <<WeekOf(day)>>),
           StatEntry("ReportHistoryDaily", <<os>>, <<day>>) >>
        \o related \o selinux

StatMatches(stats, report_id, entry) ==
    { i \in 1..Len(stats) :
        /\ stats[i].table = entry.table /\ stats[i].report = report_id
        /\ stats[i].keystr = entry.keystr /\ stats[i].keynum = entry.keynum }

\* a stat loop that counts every ingest as one
BumpStat_ByOne(stats, flushed, report_id, entry, count) ==
    LET found == { i \in StatMatches(stats, report_id, entry) : i <= flushed }
    IN  IF found = {}
        THEN Append(stats, [table |-> entry.table, report |-> report_id,
                            keystr |-> entry.keystr, keynum |-> entry.keynum,
                            count |-> 1])
        ELSE LET i == CHOOSE i \in found : \A j \in found : i <= j
             IN  [stats EXCEPT ![i].count = @ + 1]

\* a stat loop that sets the count where it is to be raised
BumpStat_Overwrite(stats, flushed, report_id, entry, count) ==
    LET found == { i \in StatMatches(stats, report_id, entry) : i <= flushed }
    IN  IF found = {}
        THEN Append(stats, [table |-> entry.table, report |-> report_id,
                            keystr |-> entry.keystr, keynum |-> entry.keynum,
                            count |-> count])
        ELSE LET i == CHOOSE i \in found : \A j \in found : i <= j
             IN  [stats EXCEPT ![i].count = count]

\* one pass of the stat loop: the row of (table, report, cols) is created with
\* count 0 when the query finds none, then its count is raised; the query
\* sees the rows flushed before the call (the first `flushed` rows)
BumpStat(stats, flushed, report_id, entry, count) ==
    LET found == { i \in StatMatches(stats, report_id, entry) : i <= flushed }
    IN  IF found = {}
        THEN Append(stats, [table |-> entry.table, report |-> report_id,
                            keystr |-> entry.keystr, keynum |-> entry.keynum,
                            count |-> 0 + count])
        ELSE LET i == CHOOSE i \in found : \A j \in found : i <= j
             IN  [stats EXCEPT ![i].count = @ + count]

RECURSIVE BumpStats(_, _, _, _, _)
BumpStats(stats, flushed, report_id, entries, count) ==
    IF entries = <<>> THEN stats
    ELSE BumpStats(BumpStat(stats, flushed, report_id, Head(entries), count),
                   flushed, report_id, Tail(entries), count)

\* ------------------------------------------------------------- add_report
\* add_report(ureport, db, utctime, count, only_check_if_known) on the
\* session's view; `found` is the row the lookup's first() returned (NoId: none).
\* The result carries the view as the call leaves it, also when it raises.
add_report(view, ureport, utctime, count, only_check_if_known, found) ==
    LET package == get_package(ureport.installed_package, ureport.os)
        component == PackageComponent[package]
        hashed == get_report_hash(ureport, component)
        updated ==
            IF found = NoId
            THEN CreateReport(view, ureport, utctime, count, component,
                              hashed.hashtype, hashed.hash)
            ELSE [view EXCEPT
                    !.reports = ReplaceRow(@, UpdateReport(RowById(@, found),
                                                           utctime, count))]
        report_id == IF found = NoId THEN view.nextid.reports ELSE found
        error == ResolveError(ureport)
        base == [view |-> view, raised |-> "", known |-> FALSE, report |-> NoId,
                 created |-> FALSE, hashtype |-> "", hash |-> sha1(<<>>),
                 touched |-> FALSE]
    IN  IF package = NoPackage
        THEN [base EXCEPT !.raised = "Unknown installed package."]
        ELSE IF ~hashed.ok
        THEN [base EXCEPT !.raised = hashed.error]
        ELSE IF only_check_if_known
        THEN [base EXCEPT !.known = found # NoId, !.report = found,
                          !.hashtype = hashed.hashtype, !.hash = hashed.hash]
        ELSE IF error # ""
        THEN [base EXCEPT !.view = updated, !.raised = error, !.report = report_id,
                          !.created = found = NoId, !.hashtype = hashed.hashtype,
                          !.hash = hashed.hash, !.touched = TRUE]
        ELSE [base EXCEPT
                !.view = [updated EXCEPT
                            !.stats = BumpStats(@, Len(view.stats), report_id,
                                          stat_map(ureport, package, utctime), count)],
                !.report = report_id, !.created = found = NoId,
                !.hashtype = hashed.hashtype, !.hash = hashed.hash,
                !.touched = TRUE]

\* the lookup of add_report: the reports first() may return for this payload
Lookup(view, ureport) ==
    LET package == get_package(ureport.installed_package, ureport.os)
        hashed == get_report_hash(ureport, PackageComponent[package])
    IN  IF package = NoPackage \/ ~hashed.ok THEN {NoId}
        ELSE FirstReport(MatchingReports(view, hashed.hashtype, hashed.hash,
                                         PackageComponent[package]))

\* ---------------------------------------------------- inputs of the ingest
BtNames == <<CoreFrame(0, 2, fn_g, Absent, path_x), CoreFrame(0, 1, fn_f, Absent, path_x)>>
BtHashes == <<CoreFrame(0, 1, fn_f, hash_a, path_x), CoreFrame(0, 2, Absent, hash_b, path_x)>>
BtGap == <<CoreFrame(0, 1, fn_f, Absent, path_x), CoreFrame(0, 2, Absent, Absent, path_x)>>
BtSplit == <<CoreFrame(0, 1, fn_f, Absent, path_x), CoreFrame(0, 2, Absent, hash_b, path_x)>>
BtOther == <<CoreFrame(1, 1, fn_f, Absent, path_x)>>

\* a crash thread whose frame indices leave a gap
BtSparse ==
    <<CoreFrame(0, 1, fn_f, Absent, path_x), CoreFrame(0, 3, fn_g, Absent, path_x)>>

\* a recursive stack: one function at two offsets, and one frame twice
BtRecursive ==
    <<CoreFrame(0, 1, fn_f, Absent, path_x), CoreFrame(0, 2, fn_f, Absent, path_x),
      [CoreFrame(0, 3, fn_f, Absent, path_x) EXCEPT !.offset = 1]>>

BasePayload ==
    [type |-> "userspace", uptime |-> 5, executable |-> "/bin/x",
     installed_package |-> "p1", running_package |-> NoKey,
     related_packages |-> <<>>, os |-> "f16", architecture |-> "x86_64",
     crash_thread |-> 0, core_backtrace |-> BtNames, selinux |-> <<>>]

Related(installed, running) ==
    [installed_package |-> installed, running_package |-> running]

\* payloads every part of which resolves
GoodPayloads ==
    { [BasePayload EXCEPT !.installed_package = pkg, !.core_backtrace = bt] :
        pkg \in {"p1", "p2"}, bt \in {BtNames, BtHashes} }
    \cup { [BasePayload EXCEPT !.os = "f17", !.uptime = 0],
           [BasePayload EXCEPT !.core_backtrace = BtRecursive],
           [BasePayload EXCEPT !.core_backtrace = BtSparse],
           [BasePayload EXCEPT !.core_backtrace = BtOther],
           [BasePayload EXCEPT !.installed_package = "p3", !.running_package = "p1",
                               !.related_packages = <<Related("p2", NoKey),
                                                      Related("p2", NoKey)>>,
                               !.selinux = <<[mode |-> "enforcing", context |-> NoKey,
                                              policy_package |-> "p2"]>>] }

\* payloads on which add_report raises
BadPayloads ==
    { [BasePayload EXCEPT !.installed_package = "px"],
      [BasePayload EXCEPT !.core_backtrace = BtGap],
      [BasePayload EXCEPT !.core_backtrace = BtSplit],
      [BasePayload EXCEPT !.architecture = "sparc"],
      [BasePayload EXCEPT !.running_package = "px"],
      [BasePayload EXCEPT !.related_packages = <<Related("p2", "px")>>],
      [BasePayload EXCEPT !.installed_package = "p2",
                          !.related_packages = <<Related("px", NoKey)>>],
      [BasePayload EXCEPT !.selinux = <<[mode |-> "Permissive", context |-> "u:r:t:s0",
                                         policy_package |-> "px"]>>] }

Payloads == GoodPayloads \cup BadPayloads

Times == {10, 20, 34}

\* (payload, utctime, count) of the add_report calls: the base payload and one
\* that raises after the lookup at every time, the others at one time
Ingests ==
    ({BasePayload} \X Times \X {1, 2})
        \cup ({[BasePayload EXCEPT !.architecture = "sparc"]} \X Times \X {1})
        \cup (Payloads \X {20} \X {1})
        \cup ({[BasePayload EXCEPT !.core_backtrace = <<>>]} \X {34} \X {1})

\* payloads is_known is asked about
KnownQueries ==
    { BasePayload, [BasePayload EXCEPT !.installed_package = "p2"],
      [BasePayload EXCEPT !.installed_package = "px"],
      [BasePayload EXCEPT !.core_backtrace = BtGap],
      [BasePayload EXCEPT !.os = "f17"],
      [BasePayload EXCEPT !.core_backtrace = BtOther] }

\* --------------------------------------------------- bookkeeping of ingests
\* What the ingests so far amount to, kept from the calls' arguments alone.
EmptyGhost ==
    [calls |-> 0,
     signatures |-> {},     \* (component, hash type, hash) of the calls past the lookup
     reports |-> <<>>,      \* per report id: times and increments of the calls on it
     daily |-> {}]          \* (report, os, day) -> increments of the calls that returned

GhostReport(utctime, count, ok) ==
    [tmin |-> utctime, tmax |-> utctime, total |-> count,
     returned |-> IF ok THEN count ELSE 0, raised |-> ~ok]

Min(a, b) == IF a < b THEN a ELSE b
Max(a, b) == IF a > b THEN a ELSE b

GhostAfter(g, ureport, utctime, count, r) ==
    LET ok == r.raised = ""
        day == DateOf(utctime)
        old == { b \in g.daily :
                    b.report = r.report /\ b.os = ureport.os /\ b.day = day }
        sum == IF old = {} THEN 0 ELSE (CHOOSE b \in old : TRUE).sum
    IN  IF ~r.touched THEN [g EXCEPT !.calls = @ + 1]
        ELSE [g EXCEPT
                !.calls = @ + 1,
                !.signatures = @ \cup
                    {[component |-> PackageComponent[ureport.installed_package],
                      type |-> r.hashtype, hash |-> r.hash]},
                !.reports =
                    IF r.report > Len(@)
                    THEN Append(@, GhostReport(utctime, count, ok))
                    ELSE [@ EXCEPT ![r.report] =
                            [tmin |-> Min(@.tmin, utctime),
                             tmax |-> Max(@.tmax, utctime),
                             total |-> @.total + count,
                             returned |-> @.returned + (IF ok THEN count ELSE 0),
                             raised |-> @.raised \/ ~ok]],
                !.daily =
                    IF ok
                    THEN (@ \ old) \cup {[report |-> r.report, os |-> ureport.os,
                                          day |-> day, sum |-> sum + count]}
                    ELSE @]

\* ------------------------------------------------------- sequential ingest
AddReportCall ==
    \E ingest \in Ingests :
        LET ureport == ingest[1]
            utctime == ingest[2]
            count == ingest[3]
        IN  \E found \in Lookup(db, ureport) :
                LET r == add_report(db, ureport, utctime, count, FALSE, found)
                IN  /\ ghost.calls < MaxIngests
                    /\ db' = r.view
                    /\ last' = [op |-> "add_report", ureport |-> ureport,
                                utctime |-> utctime, count |-> count,
                                raised |-> r.raised, known |-> r.known,
                                report |-> r.report, created |-> r.created,
                                hashtype |-> r.hashtype, touched |-> r.touched]
                    /\ ghost' = GhostAfter(ghost, ureport, utctime, count, r)
                    /\ UNCHANGED <<hashbase_default, calls, store, tx, web>>

\* an is_known that runs the ingest
IsKnownCall_Ingesting ==
    \E ureport \in KnownQueries :
        \E found \in Lookup(db, ureport) :
            LET r == add_report(db, ureport, 20, 1, FALSE, found)
            IN  /\ db' = r.view
                /\ last' = [op |-> "is_known", ureport |-> ureport,
                            utctime |-> 0, count |-> 1,
                            raised |-> r.raised, known |-> found # NoId,
                            report |-> r.report, created |-> r.created,
                            hashtype |-> r.hashtype, touched |-> r.touched]
                /\ UNCHANGED <<hashbase_default, calls, ghost, store, tx, web>>

\* is_known(ureport, db): add_report(ureport, db, only_check_if_known=True)
IsKnownCall ==
    \E ureport \in KnownQueries :
        \E found \in Lookup(db, ureport) :
            LET r == add_report(db, ureport, 0, 1, TRUE, found)
            IN  /\ db' = r.view
                /\ last' = [op |-> "is_known", ureport |-> ureport,
                            utctime |-> 0, count |-> 1,
                            raised |-> r.raised, known |-> r.known,
                            report |-> r.report, created |-> r.created,
                            hashtype |-> r.hashtype, touched |-> r.touched]
                /\ UNCHANGED <<hashbase_default, calls, ghost, store, tx, web>>

Init ==
    /\ db = EmptyDb
    /\ last = NoCall
    /\ ghost = EmptyGhost
    /\ hashbase_default = <<>> /\ calls = {}
    /\ store = Idle /\ tx = Idle /\ web = Idle

Next == AddReportCall \/ IsKnownCall

Spec == Init /\ [][Next]_vars

\* ---------------------------------------------------- concurrent ingests
\* Each ingest runs add_report in a transaction of its own: the call reads the
\* committed rows, its new and changed rows become visible to others when the
\* transaction commits. Ids come from sequences, which are drawn at once.
Procs == {1, 2}

ConcIngests ==
    ({BasePayload} \X {20, 34} \X {1})
        \cup ({[BasePayload EXCEPT !.installed_package = "p2"],
               [BasePayload EXCEPT !.running_package = "px"]} \X {20} \X {1})

IdleTx == [pc |-> "idle"]

\* rows a transaction appended to a table it read with `old` rows
Appended(old, new) == SubSeq(new, Len(old) + 1, Len(new))

\* UPDATE reports SET <changed columns> for the rows the transaction changed
MergeReports(current, read, written) ==
    [ i \in 1..Len(current) |->
        IF i > Len(read) THEN current[i]
        ELSE [current[i] EXCEPT
                !.count = IF written[i].count # read[i].count
                          THEN written[i].count ELSE @,
                !.last_occurence =
                    IF written[i].last_occurence # read[i].last_occurence
                    THEN written[i].last_occurence ELSE @,
                !.first_occurence =
                    IF written[i].first_occurence # read[i].first_occurence
                    THEN written[i].first_occurence ELSE @] ]

\* UPDATE <stat table> SET count for the rows the transaction changed
MergeStats(current, read, written) ==
    [ i \in 1..Len(current) |->
        IF i > Len(read) THEN current[i]
        ELSE [current[i] EXCEPT
                !.count = IF written[i].count # read[i].count
                          THEN written[i].count ELSE @] ]

\* the stat tables whose key is the primary key, and the two package tables'
\* UniqueConstraint, which a NULL running package never trips
KeyEnforced(row) ==
    \/ row.table \notin {"ReportPackage", "ReportRelatedPackage"}
    \/ row.keystr[2] # NoPackage

\* an INSERT of the transaction meets a committed row with its key
StatConflict(current, read, written) ==
    \E i \in 1..Len(Appended(read, written)) :
        LET row == Appended(read, written)[i]
        IN  /\ KeyEnforced(row)
            /\ StatMatches(Appended(read, current), row.report, row) # {}

\* an interned Symbol or SymbolSource of the transaction meets a committed row
\* with its natural key
SymbolConflict(current, read, written) ==
    \/ \E a \in Rows(Appended(read.symbols, written.symbols)),
          b \in Rows(Appended(read.symbols, current.symbols)) :
            a.name = b.name /\ a.normalized_path = b.normalized_path
    \/ \E a \in Rows(Appended(read.symbolsources, written.symbolsources)),
          b \in Rows(Appended(read.symbolsources, current.symbolsources)) :
            a.build_id = b.build_id /\ a.path = b.path /\ a.offset = b.offset

\* the committed rows after the transaction's INSERTs and UPDATEs
Committed(current, read, written) ==
    [nextid |-> current.nextid,
     reports |-> MergeReports(current.reports, read.reports, written.reports)
                    \o Appended(read.reports, written.reports),
     backtraces |-> current.backtraces \o Appended(read.backtraces, written.backtraces),
     bthashes |-> current.bthashes \o Appended(read.bthashes, written.bthashes),
     btframes |-> current.btframes \o Appended(read.btframes, written.btframes),
     symbolsources |-> current.symbolsources
                    \o Appended(read.symbolsources, written.symbolsources),
     symbols |-> current.symbols \o Appended(read.symbols, written.symbols),
     stats |-> MergeStats(current.stats, read.stats, written.stats)
                    \o Appended(read.stats, written.stats)]

\* a transaction runs add_report on the committed rows; a call that raises
\* ends the transaction, rolled back
TxRun(p) ==
    /\ tx[p].pc = "idle"
    /\ ghost.calls < MaxTx
    /\ \E ingest \in ConcIngests :
        \E found \in Lookup(store, ingest[1]) :
            LET r == add_report(store, ingest[1], ingest[2], ingest[3], FALSE, found)
            IN  /\ store' = [store EXCEPT !.nextid = r.view.nextid]
                /\ tx' = [tx EXCEPT ![p] =
                            [pc |-> IF r.raised = "" THEN "run" ELSE "raised",
                             ureport |-> ingest[1], utctime |-> ingest[2],
                             count |-> ingest[3],
                             read |-> store, written |-> r.view,
                             fresh |-> found = NoId, report |-> r.report,
                             alone |-> \A q \in Procs \ {p} : tx[q].pc # "run"]]
                /\ ghost' = [ghost EXCEPT !.calls = @ + 1]
                /\ UNCHANGED <<hashbase_default, calls, db, last, web>>

\* the transaction commits, or fails on a key another transaction committed
\* first; whether Symbol and SymbolSource carry a unique key is open
TxCommit(p) ==
    /\ tx[p].pc = "run"
    /\ \E symbols_unique \in BOOLEAN :
        LET conflict ==
                \/ StatConflict(store.stats, tx[p].read.stats, tx[p].written.stats)
                \/ symbols_unique /\ SymbolConflict(store, tx[p].read, tx[p].written)
        IN  /\ store' = IF conflict THEN store
                        ELSE Committed(store, tx[p].read, tx[p].written)
            /\ tx' = [tx EXCEPT ![p].pc = IF conflict THEN "conflict" ELSE "committed"]
    /\ UNCHANGED <<hashbase_default, calls, db, last, ghost, web>>

\* the next ingest of the process
TxNext(p) ==
    /\ tx[p].pc \in {"committed", "conflict", "raised"}
    /\ ghost.calls < MaxTx
    /\ tx' = [tx EXCEPT ![p] = IdleTx]
    /\ UNCHANGED <<hashbase_default, calls, db, last, ghost, store, web>>

InitConc ==
    /\ store = EmptyDb
    /\ tx = [p \in Procs |-> IdleTx]
    /\ ghost = EmptyGhost
    /\ hashbase_default = <<>> /\ calls = {}
    /\ db = Idle /\ last = NoCall /\ web = Idle

NextConc == \E p \in Procs : TxRun(p) \/ TxCommit(p) \/ TxNext(p)

SpecConc == InitConc /\ [][NextConc]_vars

\* ------------------------------------------------- the new-report endpoint
\* What the endpoint writes: the incoming queue, the invalid-report archive,
\* the unknown-opsys counter and the exception log.
EmptyWeb == [posts |-> 0, incoming |-> <<>>, invalid |-> <<>>,
             unknown_opsys |-> 0, logged |-> 0]

\* the store the endpoint asks: empty, or holding the Report of the base payload
SeededDb == add_report(EmptyDb, BasePayload, 20, 1, FALSE, NoId).view

\* bodies that are not JSON, JSON that validate() turns down (for the lack of
\* a package, or otherwise; a JSON number, true, false or null is `scalar`),
\* and valid reports
WebBodies ==
    {[kind |-> "garbage"]}
        \cup { [kind |-> "invalid", nopackage |-> np, os_known |-> ok,
                scalar |-> FALSE] : np \in BOOLEAN, ok \in BOOLEAN }
        \cup {[kind |-> "invalid", nopackage |-> FALSE, os_known |-> TRUE,
                scalar |-> TRUE]}
        \cup { [kind |-> "ureport", ureport |-> u, oversized |-> FALSE] :
                 u \in {BasePayload,
                        [BasePayload EXCEPT !.core_backtrace = BtOther],
                        [BasePayload EXCEPT !.installed_package = "px"]} }
        \cup {[kind |-> "ureport", ureport |-> BasePayload, oversized |-> TRUE]}

\* where the database fails during the request, if anywhere
DbFaults == {"none", "osr", "is_known", "find_solution", "bugs"}

WebRequests ==
    {[method |-> "GET"], [method |-> "POST", form_ok |-> FALSE, wants_json |-> TRUE]}
        \cup { [method |-> "POST", form_ok |-> TRUE, body |-> b, wants_json |-> j,
                fault |-> "none", report2_ok |-> TRUE, solution |-> FALSE] :
                 b \in WebBodies, j \in BOOLEAN }
        \cup { [method |-> "POST", form_ok |-> TRUE, wants_json |-> TRUE,
                body |-> [kind |-> "ureport", ureport |-> BasePayload,
                          oversized |-> FALSE],
                fault |-> f, report2_ok |-> r2, solution |-> sol] :
                 f \in DbFaults, r2 \in BOOLEAN, sol \in BOOLEAN }
        \cup { [method |-> "POST", form_ok |-> TRUE, wants_json |-> TRUE,
                body |-> [kind |-> "ureport",
                          ureport |-> [BasePayload EXCEPT !.installed_package = "px"],
                          oversized |-> FALSE],
                fault |-> "none", report2_ok |-> TRUE, solution |-> TRUE] }

Answer(w, status, result, raised) ==
    [web |-> w, status |-> status, result |-> result, raised |-> raised]

\* _save_invalid_ureport
SaveInvalid(w, errormsg) ==
    [w EXCEPT !.invalid = Append(@, errormsg)]

\* dbreport of new(): what is_known returns, None when it raises
Dbreport(view, request, found) ==
    LET r == add_report(view, request.body.ureport, 0, 1, TRUE, found)
    IN  [raised |-> r.raised # "" \/ request.fault = "is_known",
         report |-> IF r.raised # "" \/ request.fault = "is_known"
                    THEN NoId ELSE r.report]

\* the JSON answer to an accepted report
JsonAnswer(w, request, dbreport) ==
    LET known == dbreport.report # NoId
    IN  IF request.report2_ok /\ request.fault = "find_solution"
        THEN Answer([w EXCEPT !.logged = @ + 1], 503, "none", dbreport.raised)
        ELSE IF known /\ request.fault = "bugs"
        THEN Answer([w EXCEPT !.logged = @ + 1], 503, "none", dbreport.raised)
        ELSE Answer(w, 202,
                    IF known \/ (request.report2_ok /\ request.solution)
                    THEN "true" ELSE "false",
                    dbreport.raised)

\* new(): the status and the JSON result the request is answered with
new(view, w0, request, found) ==
    LET w == [w0 EXCEPT !.posts = @ + 1]
    IN  IF request.method # "POST" THEN Answer(w, 200, "none", FALSE)
        ELSE IF ~request.form_ok THEN Answer(w, 400, "none", FALSE)
        ELSE IF request.body.kind = "garbage"
        THEN Answer(SaveInvalid(w, "json"), 400, "none", FALSE)
        ELSE IF request.body.kind = "invalid" /\ request.body.scalar
        THEN Answer(w, 500, "none", FALSE)  \* "reporter" in data: TypeError
        ELSE IF request.body.kind = "invalid"
        THEN Answer([SaveInvalid(w, IF request.body.nopackage THEN "nopackage"
                                    ELSE "invalid")
                        EXCEPT !.unknown_opsys =
                            IF request.body.os_known THEN @ ELSE @ + 1],
                    400, "none", FALSE)
        ELSE IF request.body.oversized THEN Answer(w, 413, "none", FALSE)
        ELSE IF request.body.ureport.os \in KnownReleases /\ request.fault = "osr"
        THEN Answer([w EXCEPT !.logged = @ + 1], 503, "none", FALSE)
        ELSE LET dbreport == Dbreport(view, request, found)
                 queued == [w EXCEPT
                              !.logged = IF dbreport.raised THEN @ + 1 ELSE @,
                              !.incoming = Append(@, request.body.ureport)]
             IN  IF request.wants_json
                 THEN JsonAnswer(queued, request, dbreport)
                 ELSE Answer(queued, 202, "none", dbreport.raised)

\* the Reports the lookup of is_known may return first
Candidates(view, request) ==
    IF request.method = "POST" /\ request.form_ok /\ request.body.kind = "ureport"
    THEN Lookup(view, request.body.ureport)
    ELSE {NoId}

NewCall ==
    /\ web.posts < MaxPosts
    /\ \E request \in WebRequests :
        \E found \in Candidates(db, request) :
            LET r == new(db, web, request, found)
            IN  /\ web' = r.web
                /\ last' = [op |-> "new", request |-> request, status |-> r.status,
                            result |-> r.result, raised |-> r.raised]
    /\ UNCHANGED <<hashbase_default, calls, db, ghost, store, tx>>

InitWeb ==
    /\ web = EmptyWeb
    /\ db \in {EmptyDb, SeededDb}
    /\ last = NoCall
    /\ ghost = EmptyGhost
    /\ hashbase_default = <<>> /\ calls = {}
    /\ store = Idle /\ tx = Idle

NextWeb == NewCall

SpecWeb == InitWeb /\ [][NextWeb]_vars

\* ------------------------------------------------------------- validate
\* JSON values carry their Python type: type(obj) is what validate tests.
JStr(s) == [t |-> "str", s |-> s]
JInt(n) == [t |-> "int", n |-> n]
JDict(d) == [t |-> "dict", d |-> d]
JList(l) == [t |-> "list", l |-> l]

\* a Python type object, as the "type" entry of a checker holds one
Py(name) == [pytype |-> name]

\* the strings of the model each pattern matches
Language ==
    [RE_EXEC |-> {"/bin/x"},
     RE_FUNCNAME |-> {"main", "faf", "abrt", "b1", "16", "root", "yes"},
     RE_HEX |-> {"b1", "16"},
     RE_PACKAGE |-> {"faf", "abrt", "1.0", "1.fc16", "16", "x86_64", "main",
                     "b1", "root", "yes", "userspace", "enforcing", "Fedora",
                     "SIGSEGV"},
     RE_PHRASE |-> {"faf", "abrt", "1.0", "1.fc16", "16", "x86_64", "main", "b1",
                    "root", "yes", "userspace", "enforcing", "Fedora", "SIGSEGV",
                    "/bin/x", "a b", "u:r:t:s0"},
     RE_SEPOL |-> {"u:r:t:s0"},
     RE_TYPE |-> {"userspace"},
     RE_USER |-> {"root"},
     RE_MODE |-> {"enforcing"},
     RE_YESNO |-> {"yes"}]

\* checker["re"].match(obj) is not None
Match(re, s) == s \in Language[re]

StrNode(mand, re) == [mand |-> mand, type |-> Py("str"), re |-> re]
IntNode(mand) == [mand |-> mand, type |-> Py("int")]
DictNode(mand, checker) == [mand |-> mand, type |-> Py("dict"), checker |-> checker]
ListNode(mand, checker) == [mand |-> mand, type |-> Py("list"), checker |-> checker]

PACKAGE_CHECKER ==
    [name |-> StrNode(TRUE, "RE_PACKAGE"), version |-> StrNode(TRUE, "RE_PACKAGE"),
     release |-> StrNode(TRUE, "RE_PACKAGE"),
     architecture |-> StrNode(TRUE, "RE_PHRASE"), epoch |-> IntNode(TRUE)]

RELATED_PACKAGES_ELEM_CHECKER ==
    [installed_package |-> DictNode(TRUE, PACKAGE_CHECKER),
     running_package |-> DictNode(FALSE, PACKAGE_CHECKER)]

RELATED_PACKAGES_CHECKER ==
    [type |-> Py("dict"), checker |-> RELATED_PACKAGES_ELEM_CHECKER]

NV_CHECKER ==
    [name |-> StrNode(TRUE, "RE_PHRASE"), version |-> StrNode(TRUE, "RE_PACKAGE")]

SELINUX_CHECKER ==
    [mode |-> StrNode(TRUE, "RE_MODE"), context |-> StrNode(FALSE, "RE_SEPOL"),
     policy_package |-> DictNode(FALSE, PACKAGE_CHECKER)]

COREBT_ELEM_CHECKER ==
    [thread |-> IntNode(TRUE), frame |-> IntNode(TRUE),
     buildid |-> StrNode(TRUE, "RE_HEX"), path |-> StrNode(TRUE, "RE_EXEC"),
     offset |-> IntNode(TRUE), funcname |-> StrNode(FALSE, "RE_FUNCNAME"),
     funchash |-> StrNode(FALSE, "RE_HEX")]

COREBT_CHECKER == [type |-> Py("dict"), checker |-> COREBT_ELEM_CHECKER]

PROC_STATUS_CHECKER == <<>>

PROC_LIMITS_CHECKER == <<>>

OS_STATE_CHECKER ==
    [suspend |-> StrNode(TRUE, "RE_YESNO"), boot |-> StrNode(TRUE, "RE_YESNO"),
     login |-> StrNode(TRUE, "RE_YESNO"), logout |-> StrNode(TRUE, "RE_YESNO"),
     shutdown |-> StrNode(TRUE, "RE_YESNO")]

UREPORT_CHECKER ==
    [type |-> StrNode(TRUE, "RE_TYPE"), reason |-> StrNode(TRUE, "RE_PHRASE"),
     uptime |-> IntNode(TRUE), executable |-> StrNode(TRUE, "RE_EXEC"),
     installed_package |-> DictNode(TRUE, PACKAGE_CHECKER),
     running_package |-> DictNode(FALSE, PACKAGE_CHECKER),
     related_packages |-> ListNode(TRUE, RELATED_PACKAGES_CHECKER),
     os |-> DictNode(TRUE, NV_CHECKER),
     architecture |-> StrNode(TRUE, "RE_PHRASE"),
     reporter |-> DictNode(TRUE, NV_CHECKER),
     crash_thread |-> IntNode(TRUE),
     core_backtrace |-> ListNode(TRUE, COREBT_CHECKER),
     user_type |-> StrNode(FALSE, "RE_USER"),
     os_state |-> DictNode(FALSE, OS_STATE_CHECKER),
     selinux |-> DictNode(FALSE, SELINUX_CHECKER),
     proc_status |-> DictNode(FALSE, PROC_STATUS_CHECKER),
     proc_limits |-> DictNode(FALSE, PROC_LIMITS_CHECKER)]

\* a raised message: the field names of the "error validating '..'" wrappers,
\* outermost first, then the innermost message and the names it lists
Raised(reason, names) == [path |-> <<>>, reason |-> reason, names |-> names]

\* raise Exception, "error validating '{0}': {1}".format(key, msg)
Wrap(key, msg) == [msg EXCEPT !.path = <<key>> \o @]

\* the expected type: checker["type"] when it is a type, else dict
Expected(checker) ==
    IF "type" \in DOMAIN checker /\ "pytype" \in DOMAIN checker["type"]
    THEN checker["type"].pytype
    ELSE "dict"

\* a checker that lets an absent mandatory key pass
Missing_Skip(key, subchkr) == {}

\* except KeyError: raise for a mandatory element, skip an optional one
Missing(key, subchkr) ==
    IF subchkr.mand THEN {Raised("missing mandatory element", {key})} ELSE {}

\* a checker that looks at the declared keys only
Excess_Ignored(d, fields) == {}

\* clone.keys() after every key of the checker was popped
Excess(d, fields) == DOMAIN d \ DOMAIN fields

RECURSIVE validate(_, _)
RECURSIVE validate_list(_, _, _)

\* for elem in obj: validate(elem, checker["checker"]), stopping at the first
\* element that raises
validate_list(elems, i, checker) ==
    IF i > Len(elems) THEN {}
    ELSE LET raised == validate(elems[i], checker)
         IN  IF raised # {} THEN raised ELSE validate_list(elems, i + 1, checker)

\* validate(obj, checker): the messages the call may raise, none when it
\* returns. The keys of a checker are visited in the order of a dict, so among
\* several failing keys any one may be the first.
validate(obj, checker) ==
    IF obj.t # Expected(checker) THEN {Raised("typecheck failed", {})}
    ELSE IF obj.t = "str"
    THEN IF Match(checker.re, obj.s) THEN {}
         ELSE {Raised("contains illegal characters", {})}
    ELSE IF obj.t = "list" THEN validate_list(obj.l, 1, checker.checker)
    ELSE IF obj.t = "dict"
    THEN LET fields == IF "checker" \in DOMAIN checker
                       THEN checker.checker ELSE checker
             perkey == [key \in DOMAIN fields |->
                          IF key \notin DOMAIN obj.d
                          THEN Missing(key, fields[key])
                          ELSE { Wrap(key, msg) :
                                   msg \in validate(obj.d[key], fields[key]) }]
             inloop == UNION { perkey[key] : key \in DOMAIN fields }
             excess == Excess(obj.d, fields)
         IN  IF inloop # {} THEN inloop
             ELSE IF excess # {}
             THEN {Raised("unknown elements present", excess)}
             ELSE {}
    ELSE {}

\* ---------------------------------------------------- payloads to validate
PackageDoc(name) ==
    JDict([name |-> JStr(name), version |-> JStr("1.0"), release |-> JStr("1.fc16"),
           architecture |-> JStr("x86_64"), epoch |-> JInt(0)])

FrameDoc(i) ==
    JDict([thread |-> JInt(0), frame |-> JInt(i), buildid |-> JStr("b1"),
           path |-> JStr("/bin/x"), offset |-> JInt(i), funcname |-> JStr("main")])

NvDoc(name, version) == JDict([name |-> JStr(name), version |-> JStr(version)])

\* a payload with the mandatory fields only
BaseDoc ==
    JDict([type |-> JStr("userspace"), reason |-> JStr("SIGSEGV"),
           uptime |-> JInt(5), executable |-> JStr("/bin/x"),
           installed_package |-> PackageDoc("faf"),
           related_packages |->
               JList(<<JDict([installed_package |-> PackageDoc("abrt")])>>),
           os |-> NvDoc("Fedora", "16"), architecture |-> JStr("x86_64"),
           reporter |-> NvDoc("abrt", "1.0"), crash_thread |-> JInt(0),
           core_backtrace |-> JList(<<FrameDoc(1), FrameDoc(2)>>)])

\* the payload with every optional field
FullDoc ==
    JDict(BaseDoc.d @@
          [running_package |-> PackageDoc("faf"), user_type |-> JStr("root"),
           os_state |-> JDict([suspend |-> JStr("yes"), boot |-> JStr("yes"),
                               login |-> JStr("yes"), logout |-> JStr("yes"),
                               shutdown |-> JStr("yes")]),
           selinux |-> JDict([mode |-> JStr("enforcing"),
                              context |-> JStr("u:r:t:s0"),
                              policy_package |-> PackageDoc("abrt")]),
           proc_status |-> JDict(<<>>), proc_limits |-> JDict(<<>>)])

With(dict, key, value) == JDict(dict.d @@ (key :> value))
Without(dict, key) == JDict([k \in DOMAIN dict.d \ {key} |-> dict.d[k]])

Docs == {BaseDoc, FullDoc}

\* a payload and what was done to it: the kind of fault, the path of the
\* mapping or value it was done to (elements of a sequence as "[i]") and the
\* field added or taken away
Case(doc, fault, at, field) == [doc |-> doc, fault |-> fault, at |-> at, field |-> field]

Untouched == { Case(doc, "none", <<>>, "") : doc \in Docs }

\* a field no schema declares, at the top level and in nested mappings
Undeclared ==
    { Case(With(doc, "extra", JInt(1)), "undeclared", <<>>, "extra") : doc \in Docs }
    \cup { Case([doc EXCEPT !.d.installed_package = With(@, "extra", JStr("faf"))],
                "undeclared", <<"installed_package">>, "extra") : doc \in Docs }
    \cup { Case([doc EXCEPT !.d.os = With(@, "extra", JInt(1))],
                "undeclared", <<"os">>, "extra") : doc \in Docs }
    \cup { Case([doc EXCEPT !.d.core_backtrace.l[i] = With(@, "extra", JInt(1))],
                "undeclared", <<"core_backtrace", IF i = 1 THEN "[1]" ELSE "[2]">>,
                "extra") : doc \in Docs, i \in {1, 2} }
    \cup { Case([doc EXCEPT !.d.related_packages.l[1].d.installed_package =
                                With(@, "extra", JInt(1))],
                "undeclared", <<"related_packages", "[1]", "installed_package">>,
                "extra") : doc \in Docs }
    \cup { Case([FullDoc EXCEPT !.d.selinux = With(@, "extra", JInt(1))],
                "undeclared", <<"selinux">>, "extra"),
           Case([FullDoc EXCEPT !.d.selinux.d.policy_package =
                                With(@, "extra", JInt(1))],
                "undeclared", <<"selinux", "policy_package">>, "extra"),
           Case([FullDoc EXCEPT !.d.os_state = With(@, "extra", JStr("yes"))],
                "undeclared", <<"os_state">>, "extra") }

\* fields the process status and limits mappings may carry
Open ==
    { Case([FullDoc EXCEPT !.d[f] = With(@, k, v)], "open", <<f>>, k) :
        f \in {"proc_status", "proc_limits"}, k \in {"Name", "Max"},
        v \in {JStr("faf"), JInt(1)} }
    \cup { Case(With(BaseDoc, f, JDict(<<>>)), "none", <<>>, "") :
             f \in {"proc_status", "proc_limits"} }

\* a mandatory field taken away, at the top level and in nested mappings
Mandatory ==
    { Case(Without(doc, f), "missing", <<>>, f) :
        doc \in Docs, f \in {"core_backtrace", "type", "os", "related_packages"} }
    \cup { Case([doc EXCEPT !.d.installed_package = Without(@, f)],
                "missing", <<"installed_package">>, f) :
             doc \in Docs, f \in {"name", "epoch"} }
    \cup { Case([doc EXCEPT !.d.core_backtrace.l[2] = Without(@, "path")],
                "missing", <<"core_backtrace", "[2]">>, "path") : doc \in Docs }
    \cup { Case([FullDoc EXCEPT !.d.selinux = Without(@, "mode")],
                "missing", <<"selinux">>, "mode"),
           Case([FullDoc EXCEPT !.d.os_state = Without(@, "boot")],
                "missing", <<"os_state">>, "boot"),
           Case([FullDoc EXCEPT !.d.selinux.d.policy_package = Without(@, "name")],
                "missing", <<"selinux", "policy_package">>, "name") }

\* an optional field taken away
Optional ==
    { Case(Without(FullDoc, f), "optional", <<>>, f) :
        f \in {"running_package", "user_type", "os_state", "selinux",
               "proc_status", "proc_limits"} }
    \cup { Case([doc EXCEPT !.d.core_backtrace.l[1] = Without(@, "funcname")],
                "optional", <<"core_backtrace", "[1]">>, "funcname") : doc \in Docs }
    \cup { Case([FullDoc EXCEPT !.d.selinux = Without(@, f)],
                "optional", <<"selinux">>, f) : f \in {"context", "policy_package"} }

\* a value of the wrong type or a string its pattern turns down
IllegalIn(doc) ==
    { Case([doc EXCEPT !.d.executable = JStr("a b")], "illegal", <<"executable">>, ""),
      Case([doc EXCEPT !.d.uptime = JStr("16")], "type", <<"uptime">>, ""),
      Case([doc EXCEPT !.d.installed_package.d.name = JStr("a b")],
           "illegal", <<"installed_package", "name">>, ""),
      Case([doc EXCEPT !.d.core_backtrace.l[2].d.path = JStr("a b")],
           "illegal", <<"core_backtrace", "[2]", "path">>, ""),
      Case([doc EXCEPT !.d.core_backtrace.l[1].d.offset = JStr("16")],
           "type", <<"core_backtrace", "[1]", "offset">>, ""),
      Case([doc EXCEPT !.d.related_packages.l[1].d.installed_package.d.version =
                          JStr("a b")],
           "illegal", <<"related_packages", "[1]", "installed_package", "version">>, ""),
      Case([doc EXCEPT !.d.core_backtrace = JDict(<<>>)],
           "type", <<"core_backtrace">>, "") }

Illegal == UNION { IllegalIn(doc) : doc \in Docs }

Cases == Untouched \cup Undeclared \cup Open \cup Mandatory \cup Optional \cup Illegal

\* what a call ended with: "returned", or the message it raised
Returned == [path |-> <<>>, reason |-> "returned", names |-> {}]

Outcomes(doc) ==
    IF validate(doc, UREPORT_CHECKER) = {} THEN {Returned}
    ELSE validate(doc, UREPORT_CHECKER)

ValidateCall ==
    /\ Cardinality(calls) < MaxValidations
    /\ \E case \in Cases :
        \E outcome \in Outcomes(case.doc) :
            /\ calls' = calls \cup {[case |-> case, outcome |-> outcome]}
            /\ last' = [op |-> "validate", case |-> case, outcome |-> outcome]
    /\ UNCHANGED <<hashbase_default, db, ghost, store, tx, web>>

InitValidate ==
    /\ calls = {} /\ last = NoCall
    /\ hashbase_default = <<>>
    /\ db = Idle /\ ghost = Idle /\ store = Idle /\ tx = Idle /\ web = Idle

NextValidate == ValidateCall

SpecValidate == InitValidate /\ [][NextValidate]_vars

\* --------------------------------------------------------- backtrace quality
\* storage/report.py of the Python 3 tree: a backtrace has taint flags and
\* threads ordered by number, each thread its frames ordered by `order`
MaxTaintFlags == 1
MaxQualityFrames == 2

NoSymbol == [none |-> TRUE]
NoLine == 0
QualitySymbols == {NoSymbol, [name |-> <<"?", "?">>], [name |-> fn_f]}
QualityFrames ==
    [symbol : QualitySymbols, source_path : {None, path_x},
     line_number : {NoLine, 7}, reliable : BOOLEAN]

\* the crashthread flags of the threads of a backtrace: the schema allows
\* none, one or several crash threads
ThreadShapes == {<<>>, <<TRUE>>, <<FALSE>>, <<FALSE, TRUE>>, <<TRUE, TRUE>>}

\* ReportBacktrace.frames: the frames of the first thread marked as crash
\* thread, none when no thread is
frames(backtrace) ==
    LET crashthreads == { i \in 1..Len(backtrace.threads) :
                            backtrace.threads[i].crashthread }
    IN  IF crashthreads = {} THEN <<>>
        ELSE backtrace.threads[CHOOSE i \in crashthreads :
                                  \A j \in crashthreads : i <= j].frames

FramePenalty(frame) ==
    (IF frame.symbol = NoSymbol THEN 1
     ELSE IF frame.symbol.name = <<"?", "?">> THEN 1 ELSE 0)
    + (IF frame.source_path = None THEN 1 ELSE 0)
    + (IF frame.line_number = NoLine THEN 1 ELSE 0)
    + (IF frame.reliable THEN 0 ELSE 1)

RECURSIVE FramesPenalty(_)
FramesPenalty(fs) ==
    IF fs = <<>> THEN 0 ELSE FramePenalty(Head(fs)) + FramesPenalty(Tail(fs))

\* ReportBacktrace.compute_quality
compute_quality(backtrace) ==
    LET quality == 0 - backtrace.taint_flags
        emptied == IF frames(backtrace) = <<>> THEN quality - 100 ELSE quality
    IN  emptied - FramesPenalty(frames(backtrace))

StoredFrames(backtrace) ==
    LET RECURSIVE Count(_)
        Count(i) == IF i = 0 THEN 0
                    ELSE Len(backtrace.threads[i].frames) + Count(i - 1)
    IN  Count(Len(backtrace.threads))

\* a taint flag is stored for the backtrace
StoreTaintFlag ==
    /\ last = NoCall
    /\ db.taint_flags < MaxTaintFlags
    /\ db' = [db EXCEPT !.taint_flags = @ + 1]
    /\ UNCHANGED <<hashbase_default, calls, last, ghost, store, tx, web>>

\* a frame is stored at the end of a thread of the backtrace
StoreFrame ==
    /\ last = NoCall
    /\ StoredFrames(db) < MaxQualityFrames
    /\ \E t \in 1..Len(db.threads) : \E frame \in QualityFrames :
          db' = [db EXCEPT !.threads[t].frames = Append(@, frame)]
    /\ UNCHANGED <<hashbase_default, calls, last, ghost, store, tx, web>>

ComputeQualityCall ==
    /\ last = NoCall
    /\ last' = [op |-> "compute_quality", quality |-> compute_quality(db)]
    /\ UNCHANGED <<hashbase_default, calls, db, ghost, store, tx, web>>

InitQuality ==
    /\ \E shape \in ThreadShapes :
          db = [taint_flags |-> 0,
                threads |-> [i \in 1..Len(shape) |->
                               [crashthread |-> shape[i], frames |-> <<>>]]]
    /\ last = NoCall
    /\ hashbase_default = <<>> /\ calls = {}
    /\ ghost = Idle /\ store = Idle /\ tx = Idle /\ web = Idle

NextQuality == StoreTaintFlag \/ StoreFrame \/ ComputeQualityCall

SpecQuality == InitQuality /\ [][NextQuality]_vars

\* ------------------------------------ pyfaf/problemtypes/python.py save_ureport
MaxSaves == 3

EmptyPyDb ==
    [reports |-> <<>>, executables |-> <<>>, backtraces |-> <<>>,
     bthashes |-> <<>>, threads |-> <<>>, frames |-> <<>>,
     symbols |-> <<>>, symbolsources |-> <<>>]

\* the hash of the whole traceback: no component and no limit of frames
_hash_traceback(traceback) ==
    sha1(Join([ i \in 1..Len(traceback) |-> PyFormat(traceback[i]) ]))

\* the file name of a path; no path of the inputs carries a ".so" suffix
RECURSIVE get_libname(_)
get_libname(path) ==
    IF path = <<>> THEN <<>>
    ELSE LET rest == get_libname(Tail(path))
         IN  IF Len(rest) < Len(Tail(path)) \/ Head(path) = "/" THEN rest
             ELSE <<Head(path)>> \o rest

\* the first of the rows at the positions `found`, None when there is none
First(found) ==
    IF found = {} THEN NoId ELSE CHOOSE i \in found : \A j \in found : i <= j

\* the backtrace that carries the hash, of whichever Report
get_backtrace_by_hash(view, bthash) ==
    LET Hashed(h) == h.hash = bthash
        found == First({ at \in 1..Len(view.bthashes) : Hashed(view.bthashes[at]) })
    IN  IF found = NoId THEN NoId ELSE view.bthashes[found].backtrace

\* one pass of the frame loop: Symbol and SymbolSource are looked up in the
\* database and in the dictionaries of the call, then the frame is added
PyAddFrame(view, thread_id, i, frame) ==
    LET function_name == PyFuncname(frame)
        norm_path == get_libname(frame.file_name)
        IsSymbol(sy) == sy.name = function_name /\ sy.normalized_path = norm_path
        old_symbol == First({ at \in 1..Len(view.symbols) :
                              IsSymbol(view.symbols[at]) })
        symbols == IF old_symbol # NoId THEN view.symbols
                   ELSE Append(view.symbols, [name |-> function_name,
                                              normalized_path |-> norm_path])
        db_symbol == IF old_symbol # NoId THEN old_symbol ELSE Len(symbols)
        IsSource(ss) == /\ ss.symbol = db_symbol /\ ss.path = frame.file_name
                        /\ ss.offset = frame.file_line
        old_source == First({ at \in 1..Len(view.symbolsources) :
                              IsSource(view.symbolsources[at]) })
        sources == IF old_source # NoId THEN view.symbolsources
                   ELSE Append(view.symbolsources,
                               [symbol |-> db_symbol, path |-> frame.file_name,
                                offset |-> frame.file_line,
                                source_path |-> frame.file_name,
                                srcline |-> frame.line_contents,
                                line_number |-> frame.file_line])
        db_symbolsource == IF old_source # NoId THEN old_source ELSE Len(sources)
    IN  [view EXCEPT !.symbols = symbols, !.symbolsources = sources,
                     !.frames = Append(@, [thread |-> thread_id, order |-> i,
                                           inlined |-> FALSE,
                                           symbolsource |-> db_symbolsource])]

RECURSIVE PyAddFrames(_, _, _, _)
PyAddFrames(view, thread_id, i, stacktrace) ==
    IF stacktrace = <<>> THEN view
    ELSE PyAddFrames(PyAddFrame(view, thread_id, i + 1, Head(stacktrace)),
                     thread_id, i + 1, Tail(stacktrace))

save_ureport(view, db_report, ureport) ==
    LET crashframe == ureport.stacktrace[Len(ureport.stacktrace)]
        crashfn == PyFuncname(crashframe)
        named == [view EXCEPT !.reports[db_report].errname = ureport.exception_name]
        IsExe(e) == e.report = db_report /\ e.path = crashframe.file_name
        db_reportexe == First({ at \in 1..Len(named.executables) :
                                IsExe(named.executables[at]) })
        counted ==
            IF db_reportexe = NoId
            THEN [named EXCEPT !.executables =
                    Append(@, [report |-> db_report, path |-> crashframe.file_name,
                               count |-> 1])]
            ELSE [named EXCEPT !.executables[db_reportexe].count = @ + 1]
        bthash == _hash_traceback(ureport.stacktrace)
        db_backtrace == get_backtrace_by_hash(counted, bthash)
        backtrace_id == Len(counted.backtraces) + 1
        thread_id == Len(counted.threads) + 1
        created ==
            [counted EXCEPT
                !.backtraces = Append(@, [report |-> db_report, crashfn |-> crashfn]),
                !.bthashes = Append(@, [type |-> "NAMES", hash |-> bthash,
                                        backtrace |-> backtrace_id]),
                !.threads = Append(@, [backtrace |-> backtrace_id,
                                       crashthread |-> TRUE])]
    IN  IF db_backtrace # NoId THEN counted
        ELSE PyAddFrames(created, thread_id, 0, ureport.stacktrace)

\* the Report of a payload: one per hash_ureport, created when it is new
PyReportOf(view, ureport) ==
    LET IsReport(r) == r.hash = hash_ureport(ureport)
    IN  First({ at \in 1..Len(view.reports) : IsReport(view.reports[at]) })

PyStacks ==
    {<<PyFrame(1, FALSE)>>, <<PyFrame(1, TRUE)>>,
     <<PyFrame(1, FALSE), PyFrame(2, FALSE)>>,
     <<PyFrame(1, FALSE), PyFrame(1, FALSE)>>}

PySaves ==
    [component : ComponentNames, exception_name : {"E"}, stacktrace : PyStacks]

SaveUreportCall ==
    /\ IF last.op = "none" THEN TRUE ELSE last.saves < MaxSaves
    /\ \E ureport \in PySaves :
        LET found == PyReportOf(db, ureport)
            view == IF found # NoId THEN db
                    ELSE [db EXCEPT !.reports =
                            Append(@, [hash |-> hash_ureport(ureport),
                                       component |-> ureport.component,
                                       errname |-> None])]
            db_report == IF found # NoId THEN found ELSE Len(view.reports)
        IN  /\ db' = save_ureport(view, db_report, ureport)
            /\ last' = [op |-> "save_ureport", ureport |-> ureport,
                        report |-> db_report,
                        saves |-> IF last.op = "none" THEN 1 ELSE last.saves + 1]
    /\ UNCHANGED <<hashbase_default, calls, ghost, store, tx, web>>

InitPy ==
    /\ db = EmptyPyDb /\ last = NoCall
    /\ hashbase_default = <<>> /\ calls = {}
    /\ ghost = Idle /\ store = Idle /\ tx = Idle /\ web = Idle

NextPy == SaveUreportCall

SpecPy == InitPy /\ [][NextPy]_vars

\* ----------------------------------- webfaf/reports.py new() and the matcher
\* The duplicate-detection policies are decided by is_known of the Python 3
\* tree, called at reports.py:830 with the OS release the endpoint resolved.
MaxSubmissions == 3

Policies ==
    {"EXACT", "EQUAL_UREPORT_EXISTS", "BUG_OS_MINOR_VERSION", "BUG_OS_MAJOR_VERSION"}

\* the OpSysRelease rows: the id is the position; versions are <<major, minor>>
OpSysReleases ==
    <<[name |-> "centos", version |-> <<7, 1>>],
      [name |-> "centos", version |-> <<7, 2>>]>>

systems == {"centos"}

Submissions ==
    [os : [name : {"centos"}, version : {<<7, 1>>, <<7, 2>>}]
            \cup {[name |-> "plan9", version |-> <<4, 0>>]},
     problem : [component : ComponentNames, exception_name : {"E"},
                stacktrace : {<<PyFrame(1, FALSE)>>}]]

EmptyMatchDb == [reports |-> <<>>, occurrences |-> {}, bugs |-> {}]

\* the release lookup that ignores the version of the payload
ReleaseOf_AnyVersion(os) ==
    IF os.name \notin systems THEN NoId
    ELSE LET OfSystem(osr) == osr.name = os.name
         IN  First({ at \in 1..Len(OpSysReleases) : OfSystem(OpSysReleases[at]) })

\* osr_id of new(): the first OpSysRelease of the payload's system and version,
\* None when the system is unknown or has no such release
ReleaseOf(os) ==
    IF os.name \notin systems THEN NoId
    ELSE LET OfVersion(osr) == osr.name = os.name /\ osr.version = os.version
         IN  First({ at \in 1..Len(OpSysReleases) : OfVersion(OpSysReleases[at]) })

\* the EXACT lookup: the lowest Report of the signature and component
ExactReport(view, ureport) ==
    LET Exact(r) == /\ r.hash = hash_ureport(ureport.problem)
                    /\ r.component = ureport.problem.component
    IN  First({ at \in 1..Len(view.reports) : Exact(view.reports[at]) })

\* is_known(report, db, return_report=True, opsysrelease_id=osr_id): the Report
\* when the policy takes the submission as known, None otherwise
is_known(policy, view, ureport, osr_id) ==
    LET report == ExactReport(view, ureport)
        Bugged(parts) ==
            \E bug \in view.bugs :
                /\ bug.report = report /\ osr_id # NoId
                /\ OpSysReleases[bug.release].name = OpSysReleases[osr_id].name
                /\ \A i \in 1..parts :
                      OpSysReleases[bug.release].version[i]
                          = OpSysReleases[osr_id].version[i]
        extra ==
            CASE policy = "EXACT" -> TRUE
              [] policy = "EQUAL_UREPORT_EXISTS" ->
                    osr_id # NoId
                        /\ [report |-> report, release |-> osr_id] \in view.occurrences
              [] policy = "BUG_OS_MINOR_VERSION" ->
                    Bugged(2)
              [] policy = "BUG_OS_MAJOR_VERSION" ->
                    Bugged(1)
    IN  IF report # NoId /\ extra THEN report ELSE NoId

\* new() on a valid payload: the release is resolved, is_known is asked (a
\* failure of it is logged and taken as not known) and the payload is written
\* to the incoming queue; a database failure of the release lookup answers
\* 503 and queues nothing
NewSubmission ==
    /\ web.posts < MaxSubmissions
    /\ \E ureport \in Submissions, fault \in {"none", "release", "is_known"} :
        LET osr_id == ReleaseOf(ureport.os)
            dbreport == IF fault = "is_known" THEN NoId
                        ELSE is_known(web.policy, db, ureport, osr_id)
        IN  IF fault = "release" /\ ureport.os.name \in systems
            THEN /\ web' = [web EXCEPT !.posts = @ + 1]
                 /\ last' = [op |-> "new", ureport |-> ureport, status |-> 503,
                             known |-> FALSE]
            ELSE /\ web' = [web EXCEPT !.posts = @ + 1,
                                       !.incoming = Append(@, ureport)]
                 /\ last' = [op |-> "new", ureport |-> ureport, status |-> 202,
                             known |-> dbreport # NoId]
    /\ UNCHANGED <<hashbase_default, calls, db, ghost, store, tx>>

\* one queued payload is saved: its Report is created when the signature is
\* new, and the occurrence is recorded against its OS release
SaveOne(view, ureport) ==
    LET osr_id == ReleaseOf(ureport.os)
        found == ExactReport(view, ureport)
        reports == IF found # NoId THEN view.reports
                   ELSE Append(view.reports,
                               [hash |-> hash_ureport(ureport.problem),
                                component |-> ureport.problem.component])
        report == IF found # NoId THEN found ELSE Len(reports)
    IN  IF osr_id = NoId THEN view
        ELSE [view EXCEPT !.reports = reports,
                          !.occurrences = @ \cup {[report |-> report,
                                                   release |-> osr_id]}]

RECURSIVE SaveAll(_, _)
SaveAll(view, queue) ==
    IF queue = <<>> THEN view ELSE SaveAll(SaveOne(view, Head(queue)), Tail(queue))

\* the save-reports action: every payload of the incoming queue is saved
SaveReports ==
    /\ web.incoming # <<>>
    /\ db' = SaveAll(db, web.incoming)
    /\ web' = [web EXCEPT !.incoming = <<>>]
    /\ UNCHANGED <<hashbase_default, calls, last, ghost, store, tx>>

\* a bug of an OS release is associated with every Report
CreateBug ==
    /\ db.reports # <<>>
    /\ \E release \in 1..Len(OpSysReleases) :
          /\ \E r \in 1..Len(db.reports) :
                [report |-> r, release |-> release] \notin db.bugs
          /\ db' = [db EXCEPT !.bugs = @ \cup
                      { [report |-> r, release |-> release] :
                            r \in 1..Len(db.reports) }]
    /\ UNCHANGED <<hashbase_default, calls, last, ghost, store, tx, web>>

InitMatch ==
    /\ db = EmptyMatchDb /\ last = NoCall
    /\ \E policy \in Policies :
          web = [policy |-> policy, posts |-> 0, incoming |-> <<>>]
    /\ hashbase_default = <<>> /\ calls = {}
    /\ ghost = Idle /\ store = Idle /\ tx = Idle

NextMatch == NewSubmission \/ SaveReports \/ CreateBug

SpecMatch == InitMatch /\ [][NextMatch]_vars

\* ------------------------------------------------------ claims on the hashing
CallArg(c) == IF c.op = "hash_thread" THEN c.thread ELSE c.ureport

\* C8: hashing is deterministic: two calls of the same hashing function with
\* equal frames and equal seed arguments (a seed left at its default included)
\* return the same hash type and digest, whatever was hashed before.
C8_HashingDeterministic ==
    \A a \in calls, b \in calls :
        (a.op = b.op /\ CallArg(a) = CallArg(b) /\ a.seed = b.seed)
            => a.result = b.result

\* C9: two payloads of one component whose sorted crash threads agree on their
\* first 16 frames get the same signature, whatever follows frame 16; likewise
\* two Python stacktraces of one component agreeing on their first 16 frames.
C9_TruncationInvariance ==
    \A a \in calls, b \in calls :
        /\ (/\ a.op = "get_report_hash" /\ b.op = "get_report_hash"
            /\ a.seed = b.seed
            /\ Take(get_crash_thread(a.ureport), 16)
                 = Take(get_crash_thread(b.ureport), 16))
              => a.result = b.result
        /\ (/\ a.op = "hash_ureport" /\ b.op = "hash_ureport"
            /\ a.seed = b.seed
            /\ Take(a.ureport.stacktrace, 16) = Take(b.ureport.stacktrace, 16))
              => a.result = b.result

\* C9 witness: a crash thread longer than 16 frames and its 16-frame prefix,
\* differing in what follows, were both hashed successfully to one signature.
C9_Witness ==
    \E a \in calls, b \in calls :
        /\ a.op = "get_report_hash" /\ b.op = "get_report_hash"
        /\ a.seed = b.seed
        /\ Len(get_crash_thread(a.ureport)) > 16
        /\ Len(get_crash_thread(b.ureport)) = 16
        /\ Take(get_crash_thread(a.ureport), 16) = get_crash_thread(b.ureport)
        /\ a.result.ok /\ a.result = b.result

\* ------------------------------------------------------ claims on the ingest
HashesOf(view, report_id) ==
    { [type |-> h.type, hash |-> h.hash] :
        h \in { h \in Rows(view.bthashes) :
                  \E bt \in Rows(view.backtraces) :
                      bt.report = report_id /\ h.backtrace = bt.id } }

\* C2: after any series of sequential ingests the store holds at most one
\* Report per (hash, hash-type, component): the first ingest of a signature in
\* a component creates it and every later one updates it, so there are as
\* many Reports as signatures ingested.
C2_OneReportPerSignature ==
    /\ \A r1 \in Rows(db.reports), r2 \in Rows(db.reports) :
          (/\ r1.component = r2.component
           /\ HashesOf(db, r1.id) \cap HashesOf(db, r2.id) # {}) => r1.id = r2.id
    /\ Len(db.reports) = Cardinality(ghost.signatures)

\* C2 witness: a second ingest of a signature returned and updated the one
\* Report of that signature.
C2_Witness ==
    /\ last.op = "add_report" /\ last.raised = "" /\ ~last.created
    /\ Len(db.reports) = 1 /\ db.reports[1].count >= 2

DailyCounts(view, report_id, os, day) ==
    { view.stats[i].count : i \in StatMatches(view.stats, report_id,
                                StatEntry("ReportHistoryDaily", <<os>>, <<day>>)) }

\* C3: sequential ingests that return raise Report.count and the day bucket of
\* (Report, OS release, date) by the sum of their increments: a payload
\* ingested twice on one date with increment 1 gives count 2 and day bucket 2.
C3_CountsAddUp ==
    /\ \A id \in 1..Len(ghost.reports) :
          ~ghost.reports[id].raised
              => RowById(db.reports, id).count = ghost.reports[id].returned
    /\ \A b \in ghost.daily :
          DailyCounts(db, b.report, b.os, b.day) = {b.sum}

\* C3 witness: one payload was ingested twice on one date with increment 1;
\* its Report has count 2 and the day bucket has count 2.
C3_Witness ==
    /\ ghost.calls = 2 /\ last.op = "add_report" /\ last.count = 1
    /\ Len(db.reports) = 1 /\ db.reports[1].count = 2
    /\ ~ghost.reports[1].raised
    /\ DateOf(ghost.reports[1].tmin) = DateOf(ghost.reports[1].tmax)
    /\ DailyCounts(db, 1, last.ureport.os, DateOf(last.utctime)) = {2}

\* C4: an add_report call that raises leaves nothing behind: the storage as
\* the session sees it is what it was before the call.
C4_FailedIngestLeavesNothing ==
    [][(last'.op = "add_report" /\ last'.raised # "") => db' = db]_vars

\* C5: every Report has first_occurence <= last_occurence and count >= 1, and
\* no step lowers a Report's count.
C5_OccurrenceOrder ==
    /\ [](\A r \in Rows(db.reports) :
            r.first_occurence <= r.last_occurence /\ r.count >= 1)
    /\ [][\A r \in Rows(db.reports) :
            \E after \in Rows(db'.reports) :
                after.id = r.id /\ after.count >= r.count]_vars

\* C5 witness: an ingest with a timestamp earlier than the recorded ones
\* updated a Report.
C5_Witness ==
    /\ last.op = "add_report" /\ ~last.created /\ last.touched
    /\ \E r \in Rows(db.reports) :
          /\ r.id = last.report /\ r.count >= 2
          /\ r.first_occurence = last.utctime
          /\ r.first_occurence < r.last_occurence

\* C6: an ingest at time t on an existing Report sets last_occurence to
\* max(last_occurence, t) and first_occurence to min(first_occurence, t); so
\* first_occurence and last_occurence are the least and the greatest time of
\* the ingests of the Report.
C6_OccurrenceMinMax ==
    /\ [][(last'.op = "add_report" /\ last'.touched /\ ~last'.created)
            => LET before == RowById(db.reports, last'.report)
                   after == RowById(db'.reports, last'.report)
               IN  /\ after.last_occurence
                        = Max(before.last_occurence, last'.utctime)
                   /\ after.first_occurence
                        = Min(before.first_occurence, last'.utctime)]_vars
    /\ [](\A id \in 1..Len(ghost.reports) :
            /\ RowById(db.reports, id).first_occurence = ghost.reports[id].tmin
            /\ RowById(db.reports, id).last_occurence = ghost.reports[id].tmax)

\* C6 witness: an ingest later than the recorded ones moved last_occurence of
\* an existing Report.
C6_Witness ==
    /\ last.op = "add_report" /\ ~last.created /\ last.touched
    /\ \E r \in Rows(db.reports) :
          /\ r.id = last.report
          /\ r.last_occurence = last.utctime
          /\ r.first_occurence < r.last_occurence
          /\ ghost.reports[r.id].tmin = r.first_occurence

Selected(ureport) == Take(get_crash_thread(ureport), 16)
EveryFrameHas(thread, key) ==
    \A i \in 1..Len(thread) : thread[i][key] # Absent
SomeFrameBare(thread) ==
    \E i \in 1..Len(thread) :
        thread[i].funcname = Absent /\ thread[i].funchash = Absent

\* C10: over the selected crash-thread frames of a payload whose installed
\* package resolves: every frame with funcname gives hash type NAMES, recorded
\* with the new Report; not every frame with funcname but every frame with
\* funchash gives HASHES; a frame with neither makes the call raise and the
\* ingest is rejected with the storage untouched.
C10_StrategySelection ==
    [][(last'.op \in {"add_report", "is_known"}
          /\ get_package(last'.ureport.installed_package, last'.ureport.os) # NoPackage)
        => LET sel == Selected(last'.ureport)
               nohash == "either function names or function hashes are required"
               type == IF EveryFrameHas(sel, "funcname") THEN "NAMES" ELSE "HASHES"
           IN  /\ (EveryFrameHas(sel, "funcname") \/ EveryFrameHas(sel, "funchash"))
                    => /\ last'.raised # nohash
                       /\ last'.hashtype = type
                       /\ last'.created
                            => { h.type : h \in HashesOf(db', last'.report) } = {type}
               /\ SomeFrameBare(sel)
                    => last'.raised = nohash /\ db' = db]_vars

\* C10 witness: an ingest whose frames do not all carry funcname but all carry
\* funchash created a Report recorded with hash type HASHES.
C10_Witness ==
    /\ last.op = "add_report" /\ last.created /\ last.raised = ""
    /\ ~EveryFrameHas(Selected(last.ureport), "funcname")
    /\ { h.type : h \in HashesOf(db, last.report) } = {"HASHES"}

\* ------------------------------------------- claims on concurrent ingests
ReportsOf(view, ureport) ==
    LET component == PackageComponent[ureport.installed_package]
        hashed == get_report_hash(ureport, component)
    IN  { r \in Rows(view.reports) :
            /\ r.component = component
            /\ [type |-> hashed.hashtype, hash |-> hashed.hash]
                  \in HashesOf(view, r.id) }

\* C1: two ingests of one payload with a signature no Report has, run
\* concurrently in transactions of their own, end with exactly one Report of
\* that signature in the committed store, and its count is 2.
C1_ConcurrentNewSignature ==
    (/\ \A p \in Procs : tx[p].pc \in {"committed", "conflict"}
     /\ \E p \in Procs : ~tx[p].alone
     /\ \A p \in Procs : tx[p].fresh /\ tx[p].count = 1
     /\ tx[1].ureport = tx[2].ureport)
        => /\ Cardinality(ReportsOf(store, tx[1].ureport)) = 1
           /\ \A r \in ReportsOf(store, tx[1].ureport) : r.count = 2

\* ---------------------------------------- claims on the new-report endpoint
\* C7: a submission on which is_known raised is answered with an error, never
\* with an accepted status or with result = false.
C7_KnownFailureSurfaced ==
    [][(last'.op = "new" /\ last'.raised)
          => (last'.status >= 400 /\ last'.result # "false")]_vars

\* ------------------------------------------------- claims on the components
FramesOf(view, report_id) ==
    { f.symbolsource : f \in { f \in Rows(view.btframes) :
        \E bt \in Rows(view.backtraces) :
            bt.report = report_id /\ f.backtrace = bt.id } }

\* C11: payloads with identical crash-thread stacks whose installed packages
\* belong to different components never resolve to one Report: Reports of
\* different components share no digest, and an ingest resolves to a Report of
\* the component of its installed package, never to one of another component.
C11_ComponentSeparation ==
    /\ [](\A r1 \in Rows(db.reports), r2 \in Rows(db.reports) :
            r1.component # r2.component
                => { h.hash : h \in HashesOf(db, r1.id) }
                     \cap { h.hash : h \in HashesOf(db, r2.id) } = {})
    /\ [][(last'.op = "add_report" /\ last'.touched)
            => RowById(db'.reports, last'.report).component
                  = PackageComponent[last'.ureport.installed_package]]_vars

\* C11 witness: the same stack was ingested for packages of two components and
\* each ingest created a Report of its own.
C11_Witness ==
    /\ Len(db.reports) = 2
    /\ db.reports[1].component # db.reports[2].component
    /\ FramesOf(db, 1) = FramesOf(db, 2) /\ FramesOf(db, 1) # {}
    /\ last.op = "add_report" /\ last.created /\ last.raised = ""

\* ------------------------------------------------------ claims on validate
\* C12: the schema is closed at every nesting level: a payload with a field
\* its mapping's schema does not declare, at the top level or in a nested
\* mapping, is never accepted; validate raises "unknown elements present"
\* listing the field.
C12_SchemaClosed ==
    \A c \in calls :
        c.case.fault = "undeclared"
            => /\ c.outcome.reason = "unknown elements present"
               /\ c.case.field \in c.outcome.names

\* C12 witness: validate was called on payloads with an undeclared field at
\* the top level and inside a frame of the backtrace.
C12_Witness ==
    /\ \E c \in calls : c.case.fault = "undeclared" /\ c.case.at = <<>>
    /\ \E c \in calls : c.case.fault = "undeclared"
                          /\ c.case.at = <<"core_backtrace", "[2]">>
                          /\ c.outcome.reason = "unknown elements present"

\* C13: an absent mandatory field makes validate raise "missing mandatory
\* element" naming the field; an absent optional field alone never makes it
\* raise.
C13_MandatoryFields ==
    \A c \in calls :
        /\ c.case.fault = "missing"
              => /\ c.outcome.reason = "missing mandatory element"
                 /\ c.outcome.names = {c.case.field}
        /\ c.case.fault \in {"optional", "none"} => c.outcome = Returned

\* C13 witness: validate was called on a payload without core_backtrace and on
\* one without an optional field.
C13_Witness ==
    /\ \E c \in calls : /\ c.case.fault = "missing" /\ c.case.field = "core_backtrace"
                        /\ c.outcome.names = {"core_backtrace"}
    /\ \E c \in calls : c.case.fault = "optional" /\ c.outcome = Returned

\* C14: the message validate raises for a fault in a nested value carries the
\* full path to it: every enclosing field name from the top level down and the
\* index of the element when the fault lies inside a sequence.
C14_FullPath ==
    \A c \in calls :
        c.case.fault \in {"undeclared", "missing", "illegal", "type"}
            => c.outcome.path = c.case.at

\* C15: a payload that is valid but for the fields its proc_status or
\* proc_limits mapping carries is accepted.
C15_OpenEnded ==
    \A c \in calls : c.case.fault = "open" => c.outcome = Returned

\* ------------------------------------------- claims on packages and interning
\* C16: an optional package reference that does not resolve (a running
\* package, of the payload or of a related package, that the catalog does not
\* hold) never aborts the ingest.
C16_OptionalPackageTolerated ==
    [][last'.op = "add_report"
          => last'.raised \notin {"Unknown running package.",
                                  "Unknown related running package."}]_vars

\* C17: the store never holds two Symbols of one (function name, normalized
\* path) nor two SymbolSources of one (build id, path, offset), also after the
\* ingest of a stack that repeats a frame or has one function at several
\* offsets.
C17_InternedOnce ==
    /\ \A a \in Rows(db.symbols), b \in Rows(db.symbols) :
          (a.name = b.name /\ a.normalized_path = b.normalized_path) => a.id = b.id
    /\ \A a \in Rows(db.symbolsources), b \in Rows(db.symbolsources) :
          (a.build_id = b.build_id /\ a.path = b.path /\ a.offset = b.offset)
              => a.id = b.id

\* C18: every stat table holds at most one row per (Report, dimension value),
\* also after the ingest of a payload that lists one related package twice.
C18_StatRowUnique ==
    \A i \in 1..Len(db.stats), j \in 1..Len(db.stats) :
        (/\ db.stats[i].table = db.stats[j].table
         /\ db.stats[i].report = db.stats[j].report
         /\ db.stats[i].keystr = db.stats[j].keystr
         /\ db.stats[i].keynum = db.stats[j].keynum) => i = j

C20_IsKnownPure ==
    [][last'.op = "is_known" => db' = db]_vars

\* C20 witness: is_known answered known on a store that holds Reports.
C20_Witness ==
    /\ last.op = "is_known" /\ last.known /\ last.raised = ""
    /\ Len(db.reports) >= 1 /\ Len(db.stats) >= 1

\* --------------------------------------------------- claims on the ingest, 2
\* C30: an ingest whose payload has no frame of the declared crash thread does
\* not fail on the hash: its Report is recorded with hash type NAMES and the
\* digest of the component name alone, so all such payloads of a component
\* resolve to one Report.
C30_EmptyCrashThread ==
    [][(/\ last'.op = "add_report"
        /\ \A i \in 1..Len(last'.ureport.core_backtrace) :
              last'.ureport.core_backtrace[i].thread # last'.ureport.crash_thread
        /\ get_package(last'.ureport.installed_package, last'.ureport.os) # NoPackage)
          => /\ last'.touched /\ last'.hashtype = "NAMES"
             /\ HashesOf(db', last'.report) =
                  {[type |-> "NAMES",
                    hash |-> sha1(PackageComponent[last'.ureport.installed_package])]}]_vars

\* C30 witness: a payload with no backtrace at all was aggregated into the
\* Report that a payload with frames of another thread only had created.
C30_Witness ==
    /\ last.op = "add_report" /\ ~last.created /\ last.raised = ""
    /\ last.ureport.core_backtrace = <<>>
    /\ RowById(db.reports, last.report).first_occurence = 20
    /\ RowById(db.reports, last.report).count = 2
    /\ FramesOf(db, last.report) = {}

OrdersOf(view, backtrace_id) ==
    { i \in 1..Len(view.btframes) : view.btframes[i].backtrace = backtrace_id }

\* C24: the frames stored for a backtrace are numbered 1..n without gaps or
\* repeats, whatever frame indices the payload carries.
C24_FramesContiguous ==
    \A bt \in Rows(db.backtraces) :
        { db.btframes[i].order : i \in OrdersOf(db, bt.id) }
            = 1..Cardinality(OrdersOf(db, bt.id))

SumCounts(stats, rows) ==
    LET RECURSIVE Sum(_)
        Sum(S) == IF S = {} THEN 0
                  ELSE LET i == CHOOSE i \in S : TRUE
                       IN  stats[i].count + Sum(S \ {i})
    IN  Sum(rows)

SingleValued ==
    {"ReportArch", "ReportOpSysRelease", "ReportExecutable", "ReportUptime",
     "ReportPackage", "ReportHistoryDaily", "ReportHistoryWeekly",
     "ReportHistoryMonthly"}

\* C29: for every Report on which every ingest returned, the counts of the
\* rows of each single-valued dimension (architecture, OS release, executable,
\* uptime bucket, crashed package, daily, weekly and monthly history) sum to
\* Report.count.
C29_DimensionSums ==
    \A id \in 1..Len(ghost.reports) :
        ~ghost.reports[id].raised
            => \A table \in SingleValued :
                  SumCounts(db.stats, { i \in 1..Len(db.stats) :
                                          /\ db.stats[i].table = table
                                          /\ db.stats[i].report = id })
                      = RowById(db.reports, id).count

\* C29 witness: a Report was ingested from two OS releases, its count is the
\* sum of the two increments and its OS-release rows are two.
C29_Witness ==
    /\ Len(db.reports) = 1 /\ ~ghost.reports[1].raised
    /\ db.reports[1].count = 2
    /\ Cardinality({ i \in 1..Len(db.stats) :
                       db.stats[i].table = "ReportOpSysRelease" }) = 2

\* --------------------------------------- claims on concurrent ingests, 2
\* C25: an ingest whose lookup finds several Reports of its signature updates
\* the one with the lowest id.
C25_LowestIdSelected ==
    [][\A p \in Procs :
          (tx[p].pc = "idle" /\ tx'[p].pc = "run" /\ ~tx'[p].fresh)
              => \A r \in ReportsOf(store, tx'[p].ureport) : tx'[p].report <= r.id]_vars

\* C27: two ingests that matched one existing Report, ran concurrently and
\* both committed leave the Report's count higher by the sum of their
\* increments.
C27_NoLostUpdate ==
    (/\ \A p \in Procs : tx[p].pc = "committed" /\ ~tx[p].fresh
     /\ \E p \in Procs : ~tx[p].alone
     /\ tx[1].report = tx[2].report
     /\ tx[1].read.reports = tx[2].read.reports)
        => RowById(store.reports, tx[1].report).count
              = RowById(tx[1].read.reports, tx[1].report).count
                  + tx[1].count + tx[2].count

\* ----------------------------------------------- claims on backtrace quality
\* C28: compute_quality returns a value of -100..0 for every backtrace.
C28_QualityRange ==
    last.op = "compute_quality" => last.quality \in (0 - 100)..0

\* -------------------------------------------- claims on the python problem type
\* C26: after save_ureport completes for a Report, the Report owns a
\* Backtrace, every Backtrace belongs to one Report, and every Backtrace has
\* exactly one thread, marked as the crash thread.
C26_ReportOwnsBacktrace ==
    last.op = "save_ureport"
        => /\ \E b \in 1..Len(db.backtraces) : db.backtraces[b].report = last.report
           /\ \A b \in 1..Len(db.backtraces) :
                /\ db.backtraces[b].report \in 1..Len(db.reports)
                /\ Cardinality({ t \in 1..Len(db.threads) :
                                   db.threads[t].backtrace = b }) = 1
                /\ \A t \in 1..Len(db.threads) :
                      db.threads[t].backtrace = b => db.threads[t].crashthread

\* ------------------------------------------ claims on the matcher's policies
Submitted == last'.op = "new" /\ web'.posts # web.posts /\ last'.status = 202

MatchingOf(ureport) ==
    { r \in 1..Len(db.reports) :
        /\ db.reports[r].hash = hash_ureport(ureport.problem)
        /\ db.reports[r].component = ureport.problem.component }

SameRelease(osr, os) == osr.name = os.name /\ osr.version = os.version

C22_KnownWithOccurrence ==
    [][(Submitted /\ web.policy = "EQUAL_UREPORT_EXISTS")
          => (last'.known
                <=> \E r \in MatchingOf(last'.ureport) : \E o \in db.occurrences :
                      /\ o.report = r
                      /\ SameRelease(OpSysReleases[o.release], last'.ureport.os))]_vars

\* C22 witness: the payload submitted again after the first was saved is
\* known, with no bug associated.
C22_Witness ==
    /\ web.policy = "EQUAL_UREPORT_EXISTS"
    /\ last.op = "new" /\ last.known /\ web.posts = 2
    /\ db.bugs = {} /\ Len(db.reports) = 1

\* ------------------------------------- claims on the new-report endpoint, 2
\* C23: a submission that is not JSON or that validate turns down is answered
\* with an error, adds exactly one record with the failure reason to the
\* invalid-report archive, is not written to the incoming queue and changes
\* no row of the store.
C23_InvalidArchived ==
    [][(/\ web'.posts = web.posts + 1
        /\ last'.request.method = "POST" /\ last'.request.form_ok
        /\ last'.request.body.kind \in {"garbage", "invalid"})
          => /\ last'.status >= 400
             /\ Len(web'.invalid) = Len(web.invalid) + 1
             /\ SubSeq(web'.invalid, 1, Len(web.invalid)) = web.invalid
             /\ web'.incoming = web.incoming
             /\ db' = db]_vars

====
